---- MODULE Spec2Model ----
(***************************************************************************)
(* Extraction side of the tar.gz archiver of vela-s3-cache                 *)
(* (pkg/archiver): TarGzipArchiver.Unarchive, the per-entry handlers, the  *)
(* path boundary guard and the symlink chain validation, run against a     *)
(* file system with directories, files, symbolic links and hard links.     *)
(*                                                                         *)
(* A path string is a record [abs, segs]: abs says that the string starts  *)
(* with the separator, segs are its non-empty segments in order ("." and   *)
(* ".." included).  The empty string is [abs |-> FALSE, segs |-> <<>>].    *)
(* A physical location of the file system is the sequence of plain names   *)
(* that leads to it from "/".                                              *)
(***************************************************************************)
EXTENDS Integers, Sequences, FiniteSets, TLC

(***************************************************************************)
(* Path strings                                                            *)
(***************************************************************************)
Str(abs, segs) == [abs |-> abs, segs |-> segs]

EmptyStr == Str(FALSE, <<>>)

DotStr == Str(FALSE, <<".">>)

\* the characters of a string: its segments with the separators between them
RECURSIVE Tokens(_)
Tokens(segs) ==
    IF segs = <<>> THEN ""
    ELSE IF Len(segs) = 1 THEN Head(segs)
    ELSE Head(segs) \o "/" \o Tokens(Tail(segs))

Text(p) == (IF p.abs THEN "/" ELSE "") \o Tokens(p.segs)

HasPrefix(s, prefix) ==
    /\ Len(prefix) <= Len(s)
    /\ SubSeq(s, 1, Len(prefix)) = prefix

\* filepath.Clean: drop "." and the empty name a doubled or trailing
\* separator leaves, resolve "x/..", drop ".." at the root, keep a leading
\* ".." of a relative path; the empty result is "."
RECURSIVE CleanAcc(_, _, _)
CleanAcc(rooted, segs, out) ==
    IF segs = <<>> THEN out
    ELSE LET s == Head(segs)
             r == Tail(segs)
         IN  IF s = "." \/ s = "" THEN CleanAcc(rooted, r, out)
             ELSE IF s = ".."
                  THEN IF Len(out) > 0 /\ out[Len(out)] # ".."
                       THEN CleanAcc(rooted, r, SubSeq(out, 1, Len(out) - 1))
                       ELSE IF rooted THEN CleanAcc(rooted, r, out)
                       ELSE CleanAcc(rooted, r, Append(out, ".."))
                  ELSE CleanAcc(rooted, r, Append(out, s))

Clean(p) ==
    LET out == CleanAcc(p.abs, p.segs, <<>>)
    IN  IF ~p.abs /\ out = <<>> THEN DotStr ELSE Str(p.abs, out)

\* filepath.Join: the non-empty elements joined by the separator, cleaned
Join(a, b) ==
    IF a = EmptyStr /\ b = EmptyStr THEN EmptyStr
    ELSE IF a = EmptyStr THEN Clean(b)
    ELSE Clean(Str(a.abs, a.segs \o b.segs))

IsAbs(p) == p.abs

\* filepath.Dir of a cleaned path
Dir(p) ==
    LET c == Clean(p)
    IN  IF c.segs = <<>> \/ c = DotStr THEN c
        ELSE IF Len(c.segs) = 1 /\ ~c.abs THEN DotStr
        ELSE Str(c.abs, SubSeq(c.segs, 1, Len(c.segs) - 1))

\* a test of the leading characters alone, without the separator
isPathWithinPrefix(path, dir) ==
    LET p == Text(Clean(path))
        d == Text(Clean(dir))
    IN  HasPrefix(p, d)

\* isPathWithinBoundary checks if a path is within a directory.
isPathWithinBoundary(path, dir) ==
    LET p == Text(Clean(path))
        d == Text(Clean(dir))
    IN  HasPrefix(p, d \o "/") \/ p = d

(***************************************************************************)
(* Source paths and stored names, as written: lead is the number of        *)
(* separators the string starts with, trail says that it ends with one     *)
(* after its last segment.                                                 *)
(***************************************************************************)
Raw(lead, segs, trail) == [lead |-> lead, segs |-> segs, trail |-> trail]

\* the string as the path functions read it: repeated and trailing
\* separators make no difference to filepath.Clean
AsStr(r) == Str(r.lead > 0, r.segs)

AsRaw(p) == Raw(IF p.abs THEN 1 ELSE 0, p.segs, FALSE)

\* the number of characters of a cleaned path
RECURSIVE SegsLen(_)
SegsLen(segs) == IF segs = <<>> THEN 0 ELSE Len(Head(segs)) + SegsLen(Tail(segs))

StrLen(p) ==
    (IF p.abs THEN 1 ELSE 0) + SegsLen(p.segs)
    + (IF Len(p.segs) > 1 THEN Len(p.segs) - 1 ELSE 0)

\* filepath.Dir of a string as written: everything up to the last separator,
\* cleaned
RawDir(r) ==
    IF r.trail \/ r.segs = <<>> THEN Clean(AsStr(r))
    ELSE Clean(Str(r.lead > 0, SubSeq(r.segs, 1, Len(r.segs) - 1)))

\* filepath.Base: the last element; "." for the empty string, the separator
\* for a string of separators
Base(r) ==
    IF r.segs = <<>> THEN (IF r.lead > 0 THEN Str(TRUE, <<>>) ELSE DotStr)
    ELSE Str(FALSE, <<r.segs[Len(r.segs)]>>)

\* the length of the longest common prefix of two sequences
RECURSIVE Common(_, _)
Common(a, b) ==
    IF a = <<>> \/ b = <<>> \/ Head(a) # Head(b) THEN 0
    ELSE 1 + Common(Tail(a), Tail(b))

\* filepath.Rel: targ relative to base, both cleaned; err when one is rooted
\* and the other is not, or when base still holds ".." past the common part
Rel(base, targ) ==
    LET b == Clean(base)
        t == Clean(targ)
        bs == IF b = DotStr THEN <<>> ELSE b.segs
        ts == IF t = DotStr THEN <<>> ELSE t.segs
        n == Common(bs, ts)
        up == [i \in 1..(Len(bs) - n) |-> ".."]
        rest == SubSeq(ts, n + 1, Len(ts))
    IN  IF b.abs # t.abs THEN [err |-> TRUE, path |-> EmptyStr]
        ELSE IF \E i \in (n + 1)..Len(bs) : bs[i] = ".."
        THEN [err |-> TRUE, path |-> EmptyStr]
        ELSE IF up \o rest = <<>> THEN [err |-> FALSE, path |-> DotStr]
        ELSE [err |-> FALSE, path |-> Str(FALSE, up \o rest)]

(***************************************************************************)
(* The file system: a function from the physical locations that exist to   *)
(* their nodes.  "/" is always a directory.  A hard link is a second       *)
(* location holding the same node.                                         *)
(***************************************************************************)
DirNode == [kind |-> "dir", link |-> EmptyStr, data |-> "-"]

FileNode(data) == [kind |-> "file", link |-> EmptyStr, data |-> data]

LinkNode(text) == [kind |-> "symlink", link |-> text, data |-> "-"]

\* the number of symbolic links the kernel follows in one path resolution
MaxSymlinkHops == 16

Parent(loc) == IF loc = <<>> THEN <<>> ELSE SubSeq(loc, 1, Len(loc) - 1)

IsUnder(loc, top) == HasPrefix(loc, top)

\* Path resolution as the kernel does it, component by component from the
\* directory cur: "ok" (the location exists), "absent" (its directory
\* exists, the last name does not), or the errno of the failure.  follow
\* says whether a symbolic link in the last position is followed.
RECURSIVE Walk(_, _, _, _, _)
Walk(f, cur, rem, follow, hops) ==
    IF rem = <<>> THEN [st |-> "ok", at |-> cur]
    ELSE LET c == Head(rem)
             rest == Tail(rem)
             p == Append(cur, c)
         IN  IF c = "." THEN Walk(f, cur, rest, follow, hops)
             ELSE IF c = ".." THEN Walk(f, Parent(cur), rest, follow, hops)
             ELSE IF p \notin DOMAIN f
                  THEN [st |-> IF rest = <<>> THEN "absent" ELSE "ENOENT", at |-> p]
             ELSE IF f[p].kind = "dir" THEN Walk(f, p, rest, follow, hops)
             ELSE IF f[p].kind = "file"
                  THEN [st |-> IF rest = <<>> THEN "ok" ELSE "ENOTDIR", at |-> p]
             ELSE IF rest = <<>> /\ ~follow THEN [st |-> "ok", at |-> p]
             ELSE IF hops >= MaxSymlinkHops THEN [st |-> "ELOOP", at |-> p]
             ELSE Walk(f, IF f[p].link.abs THEN <<>> ELSE cur,
                       f[p].link.segs \o rest, follow, hops + 1)

\* os.Stat follows a symbolic link in the last position, os.Lstat does not
Stat(f, path) == Walk(f, <<>>, path.segs, TRUE, 0)

Lstat(f, path) == Walk(f, <<>>, path.segs, FALSE, 0)

\* os.MkdirAll: every prefix of the path, shortest first, is a directory
\* (reached through symbolic links or not) or is created; a prefix that is
\* a file or a dangling symbolic link is an error, and the directories
\* created before it stay.
RECURSIVE MkdirAllFrom(_, _, _)
MkdirAllFrom(f, path, i) ==
    IF i > Len(path.segs) THEN [fs |-> f, err |-> FALSE]
    ELSE LET pre == Str(TRUE, SubSeq(path.segs, 1, i))
             s == Stat(f, pre)
             l == Lstat(f, pre)
         IN  IF s.st = "ok"
             THEN IF f[s.at].kind = "dir" THEN MkdirAllFrom(f, path, i + 1)
                  ELSE [fs |-> f, err |-> TRUE]
             ELSE IF l.st = "absent"
                  THEN MkdirAllFrom(f @@ (l.at :> DirNode), path, i + 1)
                  ELSE [fs |-> f, err |-> TRUE]

MkdirAll(f, path) == MkdirAllFrom(f, path, 1)

\* os.RemoveAll: removes the location and everything below it, without
\* following a symbolic link in the last position; nil when nothing is there
RemoveAll(f, path) ==
    LET l == Lstat(f, path)
    IN  IF l.st = "ok"
        THEN [fs |-> [loc \in {x \in DOMAIN f : ~IsUnder(x, l.at)} |-> f[loc]],
              err |-> FALSE]
        ELSE IF l.st \in {"absent", "ENOENT"} THEN [fs |-> f, err |-> FALSE]
        ELSE [fs |-> f, err |-> TRUE]

\* os.Symlink: creates the link at a location that does not exist yet
Symlink(f, text, path) ==
    LET l == Lstat(f, path)
    IN  IF text # EmptyStr /\ l.st = "absent"
        THEN [fs |-> f @@ (l.at :> LinkNode(text)), err |-> FALSE]
        ELSE [fs |-> f, err |-> TRUE]

\* os.Link (linkat without AT_SYMLINK_FOLLOW): the old name is not
\* followed when it is a symbolic link, and may not be a directory
Link(f, old, new) ==
    LET o == Lstat(f, old)
        n == Lstat(f, new)
    IN  IF o.st = "ok" /\ f[o.at].kind # "dir" /\ n.st = "absent"
        THEN [fs |-> f @@ (n.at :> f[o.at]), err |-> FALSE]
        ELSE [fs |-> f, err |-> TRUE]

\* os.OpenFile(path, O_CREATE|O_WRONLY|O_TRUNC) and the copy of the entry's
\* bytes: follows symbolic links, creates the file where the path leads when
\* nothing is there, truncates the file that is there
OpenFileWrite(f, path, data) ==
    LET s == Stat(f, path)
    IN  IF s.st = "absent"
        THEN [fs |-> f @@ (s.at :> FileNode(data)), err |-> FALSE]
        ELSE IF s.st = "ok" /\ f[s.at].kind = "file"
        THEN [fs |-> [f EXCEPT ![s.at] = FileNode(data)], err |-> FALSE]
        ELSE [fs |-> f, err |-> TRUE]

(***************************************************************************)
(* Archive entries (tar headers) and the extraction handlers.  A handler   *)
(* returns the file system and the symlink records it leaves, and the      *)
(* error it returns ("OK" for nil).                                        *)
(***************************************************************************)
\* the typeflags processItem hands to processFile
FileTypes == {"TypeReg", "TypeChar", "TypeBlock", "TypeFifo", "TypeGNUSparse"}

\* first segments that start with a backslash, and with a drive letter
BackslashSegs == {"\\e"}

DriveSegs == {"C:"}

Ret(f, syms, err) == [fs |-> f, syms |-> syms, err |-> err]

\* a getTargetPath that joins the name onto the destination without the
\* boundary check
getTargetPathUnguarded(name, destAbs) ==
    LET cleanedName == Clean(name)
        first == IF cleanedName.segs = <<>> THEN "" ELSE cleanedName.segs[1]
    IN  IF cleanedName.abs \/ first \in BackslashSegs \/ first \in DriveSegs
        THEN [err |-> "AbsolutePath", path |-> EmptyStr]
        ELSE [err |-> "OK", path |-> Join(destAbs, cleanedName)]

\* getTargetPath calculates the target path for a file and checks for path
\* traversal.
getTargetPath(name, destAbs) ==
    LET cleanedName == Clean(name)
        first == IF cleanedName.segs = <<>> THEN "" ELSE cleanedName.segs[1]
        targetPath == Join(destAbs, cleanedName)
    IN  IF cleanedName.abs \/ (~cleanedName.abs /\ first \in BackslashSegs)
        THEN [err |-> "AbsolutePath", path |-> EmptyStr]
        ELSE IF ~cleanedName.abs /\ first \in DriveSegs
        THEN [err |-> "AbsolutePath", path |-> EmptyStr]
        ELSE IF ~isPathWithinBoundary(targetPath, destAbs)
        THEN [err |-> "TraversalAttempt", path |-> EmptyStr]
        ELSE [err |-> "OK", path |-> targetPath]

maxDepth == 10

\* a checkSymlinkChain that allows one hop more
RECURSIVE checkSymlinkChainOneMore(_, _, _, _, _)
checkSymlinkChainOneMore(syms, originalLink, targetPath, destAbs, depth) ==
    IF depth > maxDepth THEN "ChainTooDeep"
    ELSE IF targetPath \in DOMAIN syms
    THEN LET nextTarget == Clean(Join(Dir(targetPath), syms[targetPath]))
         IN  IF ~isPathWithinBoundary(nextTarget, destAbs) THEN "SymlinkEscape"
             ELSE IF nextTarget = originalLink THEN "CircularSymlink"
             ELSE checkSymlinkChainOneMore(syms, originalLink, nextTarget, destAbs, depth + 1)
    ELSE "OK"

\* checkSymlinkChain recursively follows symlink chains to detect path
\* traversal attempts and circular references.
RECURSIVE checkSymlinkChain(_, _, _, _, _)
checkSymlinkChain(syms, originalLink, targetPath, destAbs, depth) ==
    IF depth >= maxDepth THEN "ChainTooDeep"
    ELSE IF targetPath \in DOMAIN syms
    THEN LET linkTarget == syms[targetPath]
             linkDir == Dir(targetPath)
             nextTarget == Clean(Join(linkDir, linkTarget))
         IN  IF ~isPathWithinBoundary(nextTarget, destAbs) THEN "SymlinkEscape"
             ELSE IF nextTarget = originalLink THEN "CircularSymlink"
             ELSE checkSymlinkChain(syms, originalLink, nextTarget, destAbs, depth + 1)
    ELSE "OK"

\* processDirectory creates a directory.
processDirectory(f, syms, targetPath) ==
    LET m == MkdirAll(f, targetPath)
    IN  Ret(m.fs, syms, IF m.err THEN "IOError" ELSE "OK")

\* processFile extracts a file from a tar archive.
processFile(f, syms, path, header) ==
    LET m == MkdirAll(f, Dir(path))
        s == Stat(m.fs, path)
        w == OpenFileWrite(m.fs, path, header.data)
    IN  IF m.err THEN Ret(m.fs, syms, "IOError")
        ELSE IF s.st = "ok" THEN Ret(m.fs, syms, "FileConflict")
        ELSE IF s.st \notin {"absent", "ENOENT"} THEN Ret(m.fs, syms, "IOError")
        ELSE IF w.err THEN Ret(m.fs, syms, "IOError")
        ELSE Ret(w.fs, syms, "OK")

\* processSymlink creates a symbolic link.
processSymlink(f, syms, header, targetPath, destAbs) ==
    LET linkTarget == header.linkname
        m == MkdirAll(f, Dir(targetPath))
        linkDir == Dir(targetPath)
        resolvedTarget == Clean(Join(linkDir, linkTarget))
        backTarget == Clean(Join(Dir(resolvedTarget), syms[resolvedTarget]))
        chain == checkSymlinkChain(syms, targetPath, resolvedTarget, destAbs, 0)
        r == RemoveAll(m.fs, targetPath)
        l == Symlink(r.fs, linkTarget, targetPath)
    IN  IF m.err THEN Ret(m.fs, syms, "IOError")
        ELSE IF IsAbs(linkTarget) THEN Ret(m.fs, syms, "AbsoluteSymlink")
        ELSE IF ~isPathWithinBoundary(resolvedTarget, destAbs)
        THEN Ret(m.fs, syms, "SymlinkEscape")
        ELSE IF resolvedTarget = targetPath THEN Ret(m.fs, syms, "CircularSymlink")
        ELSE IF resolvedTarget \in DOMAIN syms /\ backTarget = targetPath
        THEN Ret(m.fs, syms, "CircularSymlink")
        ELSE IF chain # "OK" THEN Ret(m.fs, syms, chain)
        ELSE IF r.err THEN Ret(r.fs, syms, "IOError")
        ELSE IF l.err THEN Ret(l.fs, syms, "IOError")
        ELSE Ret(l.fs,
                 [k \in DOMAIN syms \cup {targetPath} |->
                     IF k = targetPath THEN linkTarget ELSE syms[k]],
                 "OK")

\* a processHardLink that guards the link target after preparing the
\* target path
processHardLinkLateGuard(f, syms, header, targetPath, destAbs) ==
    LET linkTarget == Join(destAbs, header.linkname)
        m == MkdirAll(f, Dir(targetPath))
        r == RemoveAll(m.fs, targetPath)
        l == Link(r.fs, linkTarget, targetPath)
    IN  IF m.err THEN Ret(m.fs, syms, "IOError")
        ELSE IF r.err THEN Ret(r.fs, syms, "IOError")
        ELSE IF ~isPathWithinBoundary(linkTarget, destAbs)
        THEN Ret(r.fs, syms, "HardLinkEscape")
        ELSE IF l.err THEN Ret(l.fs, syms, "IOError")
        ELSE Ret(l.fs, syms, "OK")

\* processHardLink creates a hard link.
processHardLink(f, syms, header, targetPath, destAbs) ==
    LET linkTarget == Join(destAbs, header.linkname)
        m == MkdirAll(f, Dir(targetPath))
        r == RemoveAll(m.fs, targetPath)
        l == Link(r.fs, linkTarget, targetPath)
    IN  IF ~isPathWithinBoundary(linkTarget, destAbs)
        THEN Ret(f, syms, "HardLinkEscape")
        ELSE IF m.err THEN Ret(m.fs, syms, "IOError")
        ELSE IF r.err THEN Ret(r.fs, syms, "IOError")
        ELSE IF l.err THEN Ret(l.fs, syms, "IOError")
        ELSE Ret(l.fs, syms, "OK")

\* processItem processes an file system item based on its type.
processItem(f, syms, header, targetPath, destAbs) ==
    IF header.typeflag = "TypeDir" THEN processDirectory(f, syms, targetPath)
    ELSE IF header.typeflag \in FileTypes THEN processFile(f, syms, targetPath, header)
    ELSE IF header.typeflag = "TypeSymlink"
    THEN processSymlink(f, syms, header, targetPath, destAbs)
    ELSE IF header.typeflag = "TypeLink"
    THEN processHardLink(f, syms, header, targetPath, destAbs)
    ELSE Ret(f, syms, "UnsupportedEntryKind")

\* one iteration of Unarchive's loop body on the header read: the target
\* path, then the handler of the header's type
UnarchiveEntry(f, syms, header, destAbs) ==
    LET t == getTargetPath(header.name, destAbs)
    IN  IF t.err # "OK" THEN Ret(f, syms, t.err)
        ELSE processItem(f, syms, header, t.path, destAbs)

(***************************************************************************)
(* The state: one file system, one TarGzipArchiver (its extractedSymlinks  *)
(* field), and the Unarchive calls made on it.  soloFs, soloSyms and       *)
(* soloResult follow, for each call, the same entries handled by a fresh   *)
(* archiver that runs alone from the file system the call started on.      *)
(***************************************************************************)
VARIABLES fs, extractedSymlinks, pc, dest, header, result, count, ctxDone,
          soloFs, soloSyms, soloResult,
          arch, sink, probe, local

vars == <<fs, extractedSymlinks, pc, dest, header, result, count, ctxDone,
          soloFs, soloSyms, soloResult, arch, sink, probe, local>>

\* the state of the Unarchive calls, and the state of the archive writer
\* (arch: the archiver's options and its Archive call; sink: what the call
\* has written; probe: a call of a function on its own)
\* local holds, for each call, the local variables of a loop iteration that
\* is under way; only the steps of concurrent calls (SpecConc) stop inside
\* an iteration, every other action leaves local alone
uvars == <<fs, extractedSymlinks, pc, dest, header, result, count, ctxDone,
           soloFs, soloSyms, soloResult, local>>

avars == <<arch, sink, probe, local>>

\* the longest stream an Unarchive call reads
MaxEntries == 3

Calls == {1, 2}

Root == Str(TRUE, <<>>)

Work == Str(TRUE, <<"w">>)

DestD == Str(TRUE, <<"w", "d">>)

DestE == Str(TRUE, <<"w", "e">>)

NoSyms == [k \in {} |-> EmptyStr]

NoHeader == [typeflag |-> "none", name |-> EmptyStr, linkname |-> EmptyStr, data |-> "-"]

Hdr(typeflag, name, linkname) ==
    [typeflag |-> typeflag, name |-> name, linkname |-> linkname,
     data |-> IF typeflag \in FileTypes THEN "new" ELSE "-"]

\* the stored names of the streams: names that stay in the destination,
\* and names that getTargetPath has to look at twice
Names == { Str(FALSE, <<"a">>), Str(FALSE, <<"b">>), Str(FALSE, <<"b", "a">>) }

OddNames ==
    { Str(FALSE, <<"..", "a">>), Str(FALSE, <<"..", "d", "a">>),
      Str(TRUE, <<"a">>), Str(FALSE, <<"C:", "a">>), Str(FALSE, <<"\\e">>) }

\* the link texts of the symlink and hard link entries
Links ==
    { Str(FALSE, <<"a">>), Str(FALSE, <<"b">>), Str(FALSE, <<".">>),
      Str(FALSE, <<"..">>), Str(FALSE, <<"a", "..">>), Str(TRUE, <<"a">>) }

Entries ==
    { Hdr(t, n, EmptyStr) : t \in {"TypeDir", "TypeReg", "TypeXGlobalHeader"}, n \in Names }
    \cup { Hdr(t, n, l) : t \in {"TypeSymlink", "TypeLink"}, n \in Names, l \in Links }
    \cup { Hdr(t, n, EmptyStr) : t \in {"TypeDir", "TypeReg"}, n \in OddNames }
    \cup { Hdr(t, n, Str(FALSE, <<"b">>)) : t \in {"TypeSymlink", "TypeLink"}, n \in OddNames }

\* the file systems an extraction starts on: the destination missing, or
\* present and holding a file
FsFresh == (<<>> :> DirNode) @@ (<<"w">> :> DirNode)

FsUsed == FsFresh @@ (<<"w", "d">> :> DirNode) @@ (<<"w", "d", "a">> :> FileNode("old"))

\* no archiver constructed for writing, nothing written, no function called
NoArchiver ==
    [pc |-> "new", result |-> "none", ctx |-> FALSE, PreservePath |-> FALSE,
     CompressionLevel |-> 0 - 1, src |-> <<>>, filteredSrc |-> <<>>,
     todo |-> <<>>, source |-> <<>>, walk |-> <<>>, read |-> 0,
     deferred |-> <<>>, closed |-> <<>>, errs |-> <<>>]

\* failing: the streams whose Close is going to report an error
NoSink == [bytes |-> FALSE, entries |-> <<>>, failing |-> {}]

\* no iteration under way: target is the path a step works on, depth the
\* depth of checkSymlinkChain
NoLocal == [target |-> EmptyStr, depth |-> 0]

\* walk: the call of checkSymlinkChain that is under way, when the probe is
\* of that function; returned: the function has returned
NoProbe ==
    [fn |-> "none", in |-> <<>>, walk |-> NoLocal, returned |-> FALSE,
     out |-> [err |-> FALSE, paths |-> <<>>, within |-> FALSE]]

\* nothing has been called yet
Idle ==
    /\ local = [c \in Calls |-> NoLocal]
    /\ extractedSymlinks = NoSyms
    /\ pc = [c \in Calls |-> "idle"]
    /\ dest = [c \in Calls |-> EmptyStr]
    /\ header = [c \in Calls |-> NoHeader]
    /\ result = [c \in Calls |-> "none"]
    /\ count = [c \in Calls |-> 0]
    /\ ctxDone = [c \in Calls |-> FALSE]
    /\ soloFs = [c \in Calls |-> fs]
    /\ soloSyms = [c \in Calls |-> NoSyms]
    /\ soloResult = [c \in Calls |-> "none"]
    /\ arch = NoArchiver
    /\ sink = NoSink
    /\ probe = NoProbe

Init == fs \in {FsFresh, FsUsed} /\ Idle

\* a call that starts with the records the archiver already holds
keptSymlinks(syms) == syms

\* the symlink records a call starts with: Unarchive replaces the archiver's
\* map by an empty one
freshSymlinks(syms) == NoSyms

\* a deferred closure that closes a stream and lets its error replace the
\* call's result whatever that result is
deferredCloseLast(err, closeErr) ==
    IF closeErr # "none" THEN closeErr ELSE err

\* the deferred closures of Archive and Unarchive: the error of a Close
\* becomes the call's result only when the result is nil
deferredClose(err, closeErr) ==
    IF closeErr # "none" /\ err = "OK" THEN closeErr ELSE err

\* what the Close of a stream returns
Close(stream) == IF stream \in sink.failing THEN "CloseError" ELSE "none"

\* Unarchive returns err after gzip.NewReader: the deferred gzipReader.Close
Returned(err) == deferredClose(err, Close("gzipReader"))

\* the caller's context is cancelled
Cancel(c) ==
    /\ pc[c] # "done"
    /\ ~ctxDone[c]
    /\ ctxDone' = [ctxDone EXCEPT ![c] = TRUE]
    /\ UNCHANGED <<fs, extractedSymlinks, pc, dest, header, result, count,
                   soloFs, soloSyms, soloResult>>
    /\ UNCHANGED avars

\* Unarchive up to its loop: the context check, the reset of the symlink
\* records, the creation of the destination
Unarchive(c, d) ==
    /\ pc[c] = "idle"
    /\ dest' = [dest EXCEPT ![c] = d]
    /\ IF ctxDone[c]
       THEN /\ pc' = [pc EXCEPT ![c] = "done"]
            /\ result' = [result EXCEPT ![c] = "Cancelled"]
            /\ soloResult' = [soloResult EXCEPT ![c] = "Cancelled"]
            /\ soloFs' = [soloFs EXCEPT ![c] = fs]
            /\ UNCHANGED <<fs, extractedSymlinks, soloSyms>>
       ELSE LET m == MkdirAll(fs, d)
            IN  /\ extractedSymlinks' = freshSymlinks(extractedSymlinks)
                /\ fs' = m.fs
                /\ pc' = [pc EXCEPT ![c] = IF m.err THEN "done" ELSE "run"]
                /\ result' = [result EXCEPT ![c] = IF m.err THEN "IOError" ELSE "none"]
                /\ soloFs' = [soloFs EXCEPT ![c] = m.fs]
                /\ soloSyms' = [soloSyms EXCEPT ![c] = NoSyms]
                /\ soloResult' = [soloResult EXCEPT ![c] = IF m.err THEN "IOError" ELSE "none"]
    /\ UNCHANGED <<header, count, ctxDone>>
    /\ UNCHANGED avars

\* the loop finds the context cancelled
LoopCancelled(c) ==
    /\ pc[c] = "run"
    /\ ctxDone[c]
    /\ pc' = [pc EXCEPT ![c] = "done"]
    /\ result' = [result EXCEPT ![c] = Returned("Cancelled")]
    /\ soloResult' = [soloResult EXCEPT ![c] =
                         IF soloResult[c] = "none" THEN Returned("Cancelled") ELSE soloResult[c]]
    /\ UNCHANGED <<fs, extractedSymlinks, dest, header, count, ctxDone, soloFs, soloSyms>>
    /\ UNCHANGED avars

\* tarReader.Next returns io.EOF
EndOfStream(c) ==
    /\ pc[c] = "run"
    /\ ~ctxDone[c]
    /\ pc' = [pc EXCEPT ![c] = "done"]
    /\ result' = [result EXCEPT ![c] = Returned("OK")]
    /\ soloResult' = [soloResult EXCEPT ![c] =
                         IF soloResult[c] = "none" THEN Returned("OK") ELSE soloResult[c]]
    /\ UNCHANGED <<fs, extractedSymlinks, dest, header, count, ctxDone, soloFs, soloSyms>>
    /\ UNCHANGED avars

\* one iteration of the loop on the next header of the stream; limit is
\* the length of the longest stream
\* the loop's effect on the call's state: r is what the entry did on the
\* archiver and the file system, s what it did for the call running alone
Commit(c, e, r, s) ==
    /\ fs' = r.fs
    /\ extractedSymlinks' = r.syms
    /\ pc' = [pc EXCEPT ![c] = IF r.err = "OK" THEN "run" ELSE "done"]
    /\ result' = [result EXCEPT ![c] = IF r.err = "OK" THEN "none" ELSE Returned(r.err)]
    /\ soloFs' = [soloFs EXCEPT ![c] = s.fs]
    /\ soloSyms' = [soloSyms EXCEPT ![c] = s.syms]
    /\ soloResult' = [soloResult EXCEPT ![c] =
                         IF s.err = "OK" THEN "none"
                         ELSE IF soloResult[c] = "none" THEN Returned(s.err) ELSE s.err]
    /\ header' = [header EXCEPT ![c] = e]
    /\ count' = [count EXCEPT ![c] = count[c] + 1]
    /\ UNCHANGED <<dest, ctxDone>>
    /\ UNCHANGED avars

\* a loop that takes up the next header without looking at the context
ExtractUnchecked(c, e, limit) ==
    /\ pc[c] = "run"
    /\ count[c] < limit
    /\ Commit(c, e, UnarchiveEntry(fs, extractedSymlinks, e, dest[c]),
              IF soloResult[c] # "none"
              THEN Ret(soloFs[c], soloSyms[c], soloResult[c])
              ELSE UnarchiveEntry(soloFs[c], soloSyms[c], e, dest[c]))

Extract(c, e, limit) ==
    /\ pc[c] = "run"
    /\ ~ctxDone[c]
    /\ count[c] < limit
    /\ Commit(c, e, UnarchiveEntry(fs, extractedSymlinks, e, dest[c]),
              IF soloResult[c] # "none"
              THEN Ret(soloFs[c], soloSyms[c], soloResult[c])
              ELSE UnarchiveEntry(soloFs[c], soloSyms[c], e, dest[c]))

\* the context is cancelled after the loop's check and before processFile's
FileCancelled(c, e, limit) ==
    /\ pc[c] = "run"
    /\ ~ctxDone[c]
    /\ count[c] < limit
    /\ e.typeflag \in FileTypes
    /\ getTargetPath(e.name, dest[c]).err = "OK"
    /\ ctxDone' = [ctxDone EXCEPT ![c] = TRUE]
    /\ pc' = [pc EXCEPT ![c] = "done"]
    /\ result' = [result EXCEPT ![c] = Returned("Cancelled")]
    /\ soloResult' = [soloResult EXCEPT ![c] =
                         IF soloResult[c] = "none" THEN Returned("Cancelled") ELSE soloResult[c]]
    /\ header' = [header EXCEPT ![c] = e]
    /\ count' = [count EXCEPT ![c] = count[c] + 1]
    /\ UNCHANGED <<fs, extractedSymlinks, dest, soloFs, soloSyms>>
    /\ UNCHANGED avars

(***************************************************************************)
(* Spec: one Unarchive call into /w/d, on streams of every entry kind.     *)
(***************************************************************************)
Next ==
    \/ Unarchive(1, DestD)
    \/ \E e \in Entries : Extract(1, e, MaxEntries)
    \/ \E e \in Entries : FileCancelled(1, e, MaxEntries)
    \/ EndOfStream(1)
    \/ LoopCancelled(1)
    \/ Cancel(1)

Spec == Init /\ [][Next]_vars

(***************************************************************************)
(* SpecChain: one Unarchive call on streams of symlink entries that each   *)
(* point at the next name of a line of names, or back at a name the line   *)
(* started from, each name once, in any order.                             *)
(***************************************************************************)
\* the number of names in the line that carry a symlink entry
MaxChain == 11

ChainSegs == <<"l00", "l01", "l02", "l03", "l04", "l05", "l06", "l07", "l08",
               "l09", "l10", "l11", "l12", "l13", "l14">>

\* a symlink entry named after the i-th name that points at the j-th
ChainLink(i, j) ==
    Hdr("TypeSymlink", Str(FALSE, <<ChainSegs[i]>>), Str(FALSE, <<ChainSegs[j]>>))

\* the links that point back at the first name: over 3 and over maxDepth
\* names of the line
BackLinks == { ChainLink(4, 1), ChainLink(maxDepth + 1, 1) }

ChainEntries ==
    { ChainLink(i, i + 1) : i \in 1..MaxChain } \cup BackLinks

InitChain == Init /\ fs = FsFresh

NextChain ==
    \/ Unarchive(1, DestD)
    \/ \E e \in ChainEntries :
          /\ Join(DestD, e.name) \notin DOMAIN extractedSymlinks
          /\ Extract(1, e, MaxChain)
    \/ EndOfStream(1)

SpecChain == InitChain /\ [][NextChain]_vars

(***************************************************************************)
(* SpecSeq: two Unarchive calls on the same archiver into the same         *)
(* destination, the second after the first has returned.                   *)
(* SpecConc: the two calls run concurrently, each into its own destination.*)
(***************************************************************************)
\* the longest stream of each of the two calls
MaxPair == 2

PairEntries ==
    { Hdr("TypeSymlink", Str(FALSE, <<"a">>), Str(FALSE, <<"b">>)),
      Hdr("TypeSymlink", Str(FALSE, <<"b">>), Str(FALSE, <<"a">>)),
      Hdr("TypeReg", Str(FALSE, <<"b">>), EmptyStr),
      Hdr("TypeDir", Str(FALSE, <<"a">>), EmptyStr) }

NextSeq ==
    \/ Unarchive(1, DestD)
    \/ pc[1] = "done" /\ Unarchive(2, DestD)
    \/ \E c \in Calls, e \in PairEntries : Extract(c, e, MaxPair)
    \/ \E c \in Calls : EndOfStream(c)

SpecSeq == Init /\ [][NextSeq]_vars

\* No lock serialises the calls, and a call waits in tarReader.Next and in
\* system calls inside an iteration: in SpecConc every system call and every
\* access to the symlink records is a step of its own, and the steps of the
\* two calls interleave in any order.  The map of the records is read and
\* written without synchronisation, a data race, on which the Go runtime
\* may stop the process ("fatal error: concurrent map writes", "concurrent
\* map read and map write").
ConcEntries ==
    PairEntries \cup { Hdr("TypeLink", Str(FALSE, <<"b">>), Str(FALSE, <<"a">>)) }

\* the entries of call c handled by the call running alone
Solo(c, e) ==
    IF soloResult[c] # "none" THEN Ret(soloFs[c], soloSyms[c], soloResult[c])
    ELSE UnarchiveEntry(soloFs[c], soloSyms[c], e, dest[c])

\* the target path and the resolved link target of the entry call c handles
targetOf(c) == getTargetPath(header[c].name, dest[c]).path

resolvedOf(c) == Clean(Join(Dir(targetOf(c)), header[c].linkname))

\* a step inside an iteration of call c: it goes on at p, or returns r
Step(c, p, r, f, syms, loc) ==
    /\ pc' = [pc EXCEPT ![c] = p]
    /\ result' = [result EXCEPT ![c] = r]
    /\ fs' = f
    /\ extractedSymlinks' = syms
    /\ local' = [local EXCEPT ![c] = loc]
    /\ UNCHANGED <<dest, header, count, ctxDone, soloFs, soloSyms, soloResult>>
    /\ UNCHANGED <<arch, sink, probe>>

GoOn(c, p, f, syms, loc) == Step(c, p, "none", f, syms, loc)

Fail(c, err, f) == Step(c, "done", Returned(err), f, extractedSymlinks, NoLocal)

\* Unarchive: the context check and the reset of the symlink records
ResetRecords(c, d) ==
    /\ pc[c] = "idle"
    /\ dest' = [dest EXCEPT ![c] = d]
    /\ IF ctxDone[c]
       THEN /\ pc' = [pc EXCEPT ![c] = "done"]
            /\ result' = [result EXCEPT ![c] = "Cancelled"]
            /\ soloResult' = [soloResult EXCEPT ![c] = "Cancelled"]
            /\ soloFs' = [soloFs EXCEPT ![c] = fs]
            /\ UNCHANGED extractedSymlinks
       ELSE /\ pc' = [pc EXCEPT ![c] = "mkdir86"]
            /\ extractedSymlinks' = freshSymlinks(extractedSymlinks)
            /\ UNCHANGED <<result, soloResult, soloFs>>
    /\ UNCHANGED <<fs, header, count, ctxDone, soloSyms, local>>
    /\ UNCHANGED <<arch, sink, probe>>

\* Unarchive: the creation of the destination, and the reader opened
MakeDest(c) ==
    /\ pc[c] = "mkdir86"
    /\ \E m \in {MkdirAll(fs, dest[c])} :
           /\ fs' = m.fs
           /\ pc' = [pc EXCEPT ![c] = IF m.err THEN "done" ELSE "run"]
           /\ result' = [result EXCEPT ![c] = IF m.err THEN "IOError" ELSE "none"]
           /\ soloFs' = [soloFs EXCEPT ![c] = m.fs]
           /\ soloSyms' = [soloSyms EXCEPT ![c] = NoSyms]
           /\ soloResult' = [soloResult EXCEPT ![c] = IF m.err THEN "IOError" ELSE "none"]
    /\ UNCHANGED <<extractedSymlinks, dest, header, count, ctxDone, local>>
    /\ UNCHANGED <<arch, sink, probe>>

\* where processItem sends a header
handler(typeflag) ==
    IF typeflag = "TypeDir" THEN "dir57"
    ELSE IF typeflag \in FileTypes THEN "file66"
    ELSE IF typeflag = "TypeSymlink" THEN "sym110"
    ELSE IF typeflag = "TypeLink" THEN "link170"
    ELSE "done"

\* the top of the loop: the context check, tarReader.Next, getTargetPath
\* and the switch of processItem; s is what the call alone does
ReadNext(c, e, limit) ==
    /\ pc[c] = "run"
    /\ ~ctxDone[c]
    /\ count[c] < limit
    /\ header' = [header EXCEPT ![c] = e]
    /\ count' = [count EXCEPT ![c] = count[c] + 1]
    /\ \E t \in {getTargetPath(e.name, dest[c])}, s \in {Solo(c, e)} :
           /\ pc' = [pc EXCEPT ![c] =
                        IF t.err # "OK" THEN "done" ELSE handler(e.typeflag)]
           /\ result' = [result EXCEPT ![c] =
                            IF t.err # "OK" THEN Returned(t.err)
                            ELSE IF handler(e.typeflag) = "done"
                            THEN Returned("UnsupportedEntryKind")
                            ELSE "none"]
           /\ soloFs' = [soloFs EXCEPT ![c] = s.fs]
           /\ soloSyms' = [soloSyms EXCEPT ![c] = s.syms]
           /\ soloResult' = [soloResult EXCEPT ![c] =
                                IF s.err = "OK" THEN "none"
                                ELSE IF soloResult[c] = "none" THEN Returned(s.err)
                                ELSE s.err]
    /\ UNCHANGED <<fs, extractedSymlinks, dest, ctxDone, local>>
    /\ UNCHANGED <<arch, sink, probe>>

\* processDirectory: os.MkdirAll of the target path
DirMake(c) ==
    /\ pc[c] = "dir57"
    /\ \E m \in {MkdirAll(fs, targetOf(c))} :
           IF m.err THEN Fail(c, "IOError", m.fs)
           ELSE GoOn(c, "dir61", m.fs, extractedSymlinks, NoLocal)

\* os.Chtimes of the path an entry was extracted to: it fails when nothing
\* is there any more
Chtimes(c) ==
    IF Stat(fs, targetOf(c)).st = "ok"
    THEN GoOn(c, "run", fs, extractedSymlinks, NoLocal)
    ELSE Fail(c, "IOError", fs)

\* processDirectory: os.Chtimes of the directory
DirTimes(c) ==
    /\ pc[c] = "dir61"
    /\ Chtimes(c)

\* processFile: the context check and os.MkdirAll of the parent
FileMkdir(c) ==
    /\ pc[c] = "file66"
    /\ \E m \in {MkdirAll(fs, Dir(targetOf(c)))} :
           IF ctxDone[c] THEN Fail(c, "Cancelled", fs)
           ELSE IF m.err THEN Fail(c, "IOError", m.fs)
           ELSE GoOn(c, "file78", m.fs, extractedSymlinks, NoLocal)

\* processFile: os.Stat of the path
FileStat(c) ==
    /\ pc[c] = "file78"
    /\ \E s \in {Stat(fs, targetOf(c))} :
           IF s.st = "ok" THEN Fail(c, "FileConflict", fs)
           ELSE IF s.st \notin {"absent", "ENOENT"} THEN Fail(c, "IOError", fs)
           ELSE GoOn(c, "file84", fs, extractedSymlinks, NoLocal)

\* processFile: os.OpenFile creates the file, or truncates the one there;
\* the call keeps the file that was opened
FileOpen(c) ==
    /\ pc[c] = "file84"
    /\ \E w \in {OpenFileWrite(fs, targetOf(c), "")}, at \in {Stat(fs, targetOf(c)).at} :
           IF w.err THEN Fail(c, "IOError", w.fs)
           ELSE GoOn(c, "file99", w.fs, extractedSymlinks,
                     [target |-> Str(TRUE, at), depth |-> 0])

\* processFile: io.CopyBuffer writes the bytes of the entry into the file
\* that was opened, wherever it is now
FileCopy(c) ==
    /\ pc[c] = "file99"
    /\ GoOn(c, "file103",
            IF local[c].target.segs \in DOMAIN fs /\ fs[local[c].target.segs].kind = "file"
            THEN [fs EXCEPT ![local[c].target.segs] = FileNode(header[c].data)]
            ELSE fs,
            extractedSymlinks, NoLocal)

\* processFile: os.Chtimes of the file
FileTimes(c) ==
    /\ pc[c] = "file103"
    /\ Chtimes(c)

\* processSymlink: os.MkdirAll of the parent, and the checks of the link
\* target that look at no record
SymMkdir(c) ==
    /\ pc[c] = "sym110"
    /\ \E m \in {MkdirAll(fs, Dir(targetOf(c)))} :
           IF m.err THEN Fail(c, "IOError", m.fs)
           ELSE IF IsAbs(header[c].linkname) THEN Fail(c, "AbsoluteSymlink", m.fs)
           ELSE IF ~isPathWithinBoundary(resolvedOf(c), dest[c])
           THEN Fail(c, "SymlinkEscape", m.fs)
           ELSE IF resolvedOf(c) = targetOf(c) THEN Fail(c, "CircularSymlink", m.fs)
           ELSE GoOn(c, "sym137", m.fs, extractedSymlinks, NoLocal)

\* processSymlink: the read of the record of the resolved target
SymBack(c) ==
    /\ pc[c] = "sym137"
    /\ IF /\ resolvedOf(c) \in DOMAIN extractedSymlinks
          /\ Clean(Join(Dir(resolvedOf(c)), extractedSymlinks[resolvedOf(c)]))
                = targetOf(c)
       THEN Fail(c, "CircularSymlink", fs)
       ELSE GoOn(c, "sym229", fs, extractedSymlinks,
                 [target |-> resolvedOf(c), depth |-> 0])

\* one call of a checkSymlinkChain that allows one hop more
chainLevelOneMore(syms, originalLink, targetPath, destAbs, depth) ==
    IF depth > maxDepth THEN [err |-> "ChainTooDeep", next |-> targetPath]
    ELSE IF targetPath \in DOMAIN syms
    THEN LET nextTarget == Clean(Join(Dir(targetPath), syms[targetPath]))
         IN  IF ~isPathWithinBoundary(nextTarget, destAbs)
             THEN [err |-> "SymlinkEscape", next |-> nextTarget]
             ELSE IF nextTarget = originalLink
             THEN [err |-> "CircularSymlink", next |-> nextTarget]
             ELSE [err |-> "more", next |-> nextTarget]
    ELSE [err |-> "OK", next |-> targetPath]

\* one call of checkSymlinkChain, up to the call it makes of itself: what
\* it returns, or "more" and the target it calls itself on
chainLevel(syms, originalLink, targetPath, destAbs, depth) ==
    IF depth >= maxDepth THEN [err |-> "ChainTooDeep", next |-> targetPath]
    ELSE IF targetPath \in DOMAIN syms
    THEN LET linkTarget == syms[targetPath]
             linkDir == Dir(targetPath)
             nextTarget == Clean(Join(linkDir, linkTarget))
         IN  IF ~isPathWithinBoundary(nextTarget, destAbs)
             THEN [err |-> "SymlinkEscape", next |-> nextTarget]
             ELSE IF nextTarget = originalLink
             THEN [err |-> "CircularSymlink", next |-> nextTarget]
             ELSE [err |-> "more", next |-> nextTarget]
    ELSE [err |-> "OK", next |-> targetPath]

\* checkSymlinkChain: one call of it, with its read of a record
SymChain(c) ==
    /\ pc[c] = "sym229"
    /\ \E v \in {chainLevel(extractedSymlinks, targetOf(c), local[c].target, dest[c],
                             local[c].depth)} :
          IF v.err = "more"
          THEN GoOn(c, "sym229", fs, extractedSymlinks,
                    [target |-> v.next, depth |-> local[c].depth + 1])
          ELSE IF v.err = "OK" THEN GoOn(c, "sym153", fs, extractedSymlinks, NoLocal)
          ELSE Fail(c, v.err, fs)

\* processSymlink: os.RemoveAll of the target path
SymRemove(c) ==
    /\ pc[c] = "sym153"
    /\ \E r \in {RemoveAll(fs, targetOf(c))} :
           IF r.err THEN Fail(c, "IOError", r.fs)
           ELSE GoOn(c, "sym157", r.fs, extractedSymlinks, NoLocal)

\* processSymlink: os.Symlink
SymMake(c) ==
    /\ pc[c] = "sym157"
    /\ \E l \in {Symlink(fs, header[c].linkname, targetOf(c))} :
           IF l.err THEN Fail(c, "IOError", l.fs)
           ELSE GoOn(c, "sym162", l.fs, extractedSymlinks, NoLocal)

\* processSymlink: the write of the record of the new symlink
SymRecord(c) ==
    /\ pc[c] = "sym162"
    /\ GoOn(c, "run", fs,
            [k \in DOMAIN extractedSymlinks \cup {targetOf(c)} |->
                IF k = targetOf(c) THEN header[c].linkname ELSE extractedSymlinks[k]],
            NoLocal)

\* processHardLink: the check of the link target and os.MkdirAll of the
\* parent
LinkMkdir(c) ==
    /\ pc[c] = "link170"
    /\ \E m \in {MkdirAll(fs, Dir(targetOf(c)))} :
           IF ~isPathWithinBoundary(Join(dest[c], header[c].linkname), dest[c])
           THEN Fail(c, "HardLinkEscape", fs)
           ELSE IF m.err THEN Fail(c, "IOError", m.fs)
           ELSE GoOn(c, "link182", m.fs, extractedSymlinks, NoLocal)

\* processHardLink: os.RemoveAll of the target path
LinkRemove(c) ==
    /\ pc[c] = "link182"
    /\ \E r \in {RemoveAll(fs, targetOf(c))} :
           IF r.err THEN Fail(c, "IOError", r.fs)
           ELSE GoOn(c, "link186", r.fs, extractedSymlinks, NoLocal)

\* processHardLink: os.Link
LinkMake(c) ==
    /\ pc[c] = "link186"
    /\ \E l \in {Link(fs, Join(dest[c], header[c].linkname), targetOf(c))} :
           IF l.err THEN Fail(c, "IOError", l.fs)
           ELSE GoOn(c, "run", l.fs, extractedSymlinks, NoLocal)

\* call c is about to write a record while call o is about to read or to
\* write one: the accesses may overlap, and the runtime stops the process
MapRace(c, o) ==
    /\ c # o
    /\ pc[c] = "sym162"
    /\ \/ pc[o] \in {"sym137", "sym162"}
       \/ pc[o] = "sym229" /\ local[o].depth < maxDepth
    /\ pc' = [k \in Calls |-> "aborted"]
    /\ result' = [k \in Calls |-> "FatalError"]
    /\ UNCHANGED <<fs, extractedSymlinks, dest, header, count, ctxDone,
                   soloFs, soloSyms, soloResult, local>>
    /\ UNCHANGED <<arch, sink, probe>>

\* the steps of call c into d
CallSteps(c, d) ==
    \/ ResetRecords(c, d)
    \/ MakeDest(c)
    \/ \E e \in ConcEntries : ReadNext(c, e, MaxPair)
    \/ EndOfStream(c)
    \/ DirMake(c) \/ DirTimes(c)
    \/ FileMkdir(c) \/ FileStat(c) \/ FileOpen(c) \/ FileCopy(c) \/ FileTimes(c)
    \/ SymMkdir(c) \/ SymBack(c) \/ SymChain(c)
    \/ SymRemove(c) \/ SymMake(c) \/ SymRecord(c)
    \/ LinkMkdir(c) \/ LinkRemove(c) \/ LinkMake(c)

NextConc ==
    \/ CallSteps(1, DestD)
    \/ CallSteps(2, DestE)
    \/ \E c \in Calls, o \in Calls : MapRace(c, o)

SpecConc == Init /\ [][NextConc]_vars

(***************************************************************************)
(* The archive writer: the redundant path filter, the walk of a source,    *)
(* the header of a walked path and its stored name.                        *)
(***************************************************************************)
\* the working directory of the process: relative source paths start here
Cwd == Work

\* the names of a path as the kernel resolves them: from the working
\* directory unless rooted; a trailing separator makes the last name resolve
\* as a directory
OsSegs(r) ==
    (IF r.lead > 0 THEN <<>> ELSE Cwd.segs) \o r.segs
    \o (IF r.trail /\ r.segs # <<>> THEN <<".">> ELSE <<>>)

StatRaw(f, r) == Walk(f, <<>>, OsSegs(r), TRUE, 0)

LstatRaw(f, r) == Walk(f, <<>>, OsSegs(r), FALSE, 0)

\* filepath.Abs
Abs(r) == IF r.lead > 0 THEN Clean(AsStr(r)) ELSE Join(Cwd, AsStr(r))

\* the order in which a directory's names are read (sorted)
NameOrder == <<"a", "b", "d", "f", "g", "k", "l", "s", "t", "w">>

\* filepath.Walk below a path that exists: the path, then, for a directory,
\* the walk of each of its names in order
RECURSIVE WalkFrom(_, _, _)
RECURSIVE WalkNames(_, _, _, _)
WalkFrom(f, path, loc) ==
    <<[path |-> path, loc |-> loc, err |-> FALSE]>>
    \o (IF f[loc].kind = "dir" THEN WalkNames(f, path, loc, 1) ELSE <<>>)

WalkNames(f, path, loc, i) ==
    IF i > Len(NameOrder) THEN <<>>
    ELSE (IF Append(loc, NameOrder[i]) \in DOMAIN f
          THEN WalkFrom(f, AsRaw(Join(AsStr(path), Str(FALSE, <<NameOrder[i]>>))),
                        Append(loc, NameOrder[i]))
          ELSE <<>>)
         \o WalkNames(f, path, loc, i + 1)

\* the calls filepath.Walk makes to its function for a source, in order
WalkList(f, source) ==
    LET l == LstatRaw(f, source)
    IN  IF l.st = "ok" THEN WalkFrom(f, source, l.at)
        ELSE <<[path |-> source, loc |-> <<>>, err |-> TRUE]>>

\* createHeader creates a tar header for the given file info.
createHeader(f, loc) ==
    IF f[loc].kind = "symlink"
    THEN [typeflag |-> "TypeSymlink", linkname |-> f[loc].link, data |-> "-", size |-> 0]
    ELSE IF f[loc].kind = "dir"
    THEN [typeflag |-> "TypeDir", linkname |-> EmptyStr, data |-> "-", size |-> 0]
    ELSE [typeflag |-> "TypeReg", linkname |-> EmptyStr, data |-> f[loc].data,
          size |-> Len(f[loc].data)]

HasSuffixSep(r) == r.trail \/ (r.segs = <<>> /\ r.lead > 0)

TrimPrefixSep(r) == IF r.lead > 0 THEN Raw(r.lead - 1, r.segs, r.trail) ELSE r

\* setHeaderName sets the name in the tar header based on the path.
setHeaderName(f, typeflag, source, path, PreservePath) ==
    LET sourceInfo == StatRaw(f, source)
        relPath == Rel(RawDir(source), AsStr(path))
        name == IF f[sourceInfo.at].kind = "dir" THEN AsRaw(relPath.path)
                ELSE IF PreservePath THEN source
                ELSE AsRaw(Base(path))
        slashed == IF typeflag = "TypeDir" /\ ~HasSuffixSep(name)
                   THEN Raw(name.lead, name.segs, TRUE) ELSE name
    IN  IF sourceInfo.st # "ok" THEN [err |-> TRUE, name |-> Raw(0, <<>>, FALSE)]
        ELSE IF f[sourceInfo.at].kind = "dir" /\ relPath.err
        THEN [err |-> TRUE, name |-> Raw(0, <<>>, FALSE)]
        ELSE [err |-> FALSE, name |-> TrimPrefixSep(slashed)]

\* what filterRedundantPaths collects about a path
pathInfo(f, path) ==
    LET abs == Abs(path)
        fi == Stat(f, abs)
        isDir == fi.st = "ok" /\ f[fi.at].kind = "dir"
        sep == isDir /\ abs.segs # <<>>
    IN  [original |-> path,
         abs |-> Text(abs) \o (IF sep THEN "/" ELSE ""),
         len |-> StrLen(abs) + (IF sep THEN 1 ELSE 0),
         isDir |-> isDir,
         err |-> fi.st # "ok"]

\* the information about all paths, in the order of the list
RECURSIVE collectInfos(_, _)
collectInfos(f, paths) ==
    IF paths = <<>> THEN <<>>
    ELSE <<pathInfo(f, Head(paths))>> \o collectInfos(f, Tail(paths))

\* a sort that leaves the paths in any order
anyOrders(infos) ==
    {o \in [1..Len(infos) -> 1..Len(infos)] :
        \A i, j \in 1..Len(infos) : i # j => o[i] # o[j]}

\* the orders sort.Slice can leave the paths in: shortest first, paths of
\* the same length in any order
sortedOrders(infos) ==
    {o \in [1..Len(infos) -> 1..Len(infos)] :
        /\ \A i, j \in 1..Len(infos) : i # j => o[i] # o[j]
        /\ \A i, j \in 1..Len(infos) : i < j => infos[o[i]].len <= infos[o[j]].len}

\* the paths of infos, read in the order o, that no earlier directory covers
RECURSIVE keepFrom(_, _, _)
keepFrom(infos, o, i) ==
    IF i > Len(infos) THEN <<>>
    ELSE (IF \E j \in 1..(i - 1) :
                infos[o[j]].isDir /\ HasPrefix(infos[o[i]].abs, infos[o[j]].abs)
          THEN <<>> ELSE <<infos[o[i]].original>>)
         \o keepFrom(infos, o, i + 1)

\* filterRedundantPaths removes paths that are already covered by other
\* paths in the list: the results it can return
filterRedundantPaths(f, paths) ==
    LET infos == collectInfos(f, paths)
    IN  IF Len(paths) <= 1 THEN {[err |-> FALSE, paths |-> paths]}
        ELSE IF \E i \in 1..Len(paths) : infos[i].err
        THEN {[err |-> TRUE, paths |-> <<>>]}
        ELSE {[err |-> FALSE, paths |-> keepFrom(infos, o, 1)] : o \in sortedOrders(infos)}

(***************************************************************************)
(* SpecArchive: an archiver is constructed, Archive writes a list of       *)
(* sources of a source tree to the sink, and Unarchive extracts what was   *)
(* written into /w/d; the caller may cancel either call at any point.      *)
(***************************************************************************)
\* the longest source list
MaxSources == 2

\* the source tree: /w/s holds the file f, the symlink k -> f and the empty
\* directory g; /w/t holds another file f; /w/l is a symlink to s
FsSrc ==
    FsFresh
    @@ (<<"w", "s">> :> DirNode)
    @@ (<<"w", "s", "f">> :> FileNode("x1"))
    @@ (<<"w", "s", "k">> :> LinkNode(Str(FALSE, <<"f">>)))
    @@ (<<"w", "s", "g">> :> DirNode)
    @@ (<<"w", "t">> :> DirNode)
    @@ (<<"w", "t", "f">> :> FileNode("x2"))
    @@ (<<"w", "l">> :> LinkNode(Str(FALSE, <<"s">>)))

\* source paths as a caller writes them: relative, rooted, with a trailing
\* separator, with a doubled leading separator, and one that does not exist
Sources ==
    { Raw(0, <<"s">>, FALSE), Raw(0, <<"s">>, TRUE), Raw(1, <<"w", "s">>, FALSE),
      Raw(0, <<"s", "f">>, FALSE), Raw(1, <<"w", "s", "f">>, FALSE),
      Raw(2, <<"w", "s", "f">>, FALSE), Raw(0, <<"t", "f">>, FALSE),
      Raw(0, <<"s", "g">>, FALSE), Raw(0, <<"s", "k">>, FALSE),
      Raw(0, <<"s", "a">>, FALSE) }

SourceLists == UNION { [1..n -> Sources] : n \in 0..MaxSources }

Formats == {"tar.gz", "zip"}

\* compression levels: the default, and one past each end of what gzip takes
Levels == {0 - 3, 0 - 1, 10}

\* gzip.NewWriterLevel accepts HuffmanOnly (-2) to BestCompression (9)
ValidLevel(level) == level >= 0 - 2 /\ level <= 9

InitArchive == fs = FsSrc /\ Idle

\* NewArchiver creates a new Archiver based on the given format and options.
NewArchiver(format, level, preservePath) ==
    /\ arch.pc = "new"
    /\ arch' = IF format = "tar.gz"
               THEN [arch EXCEPT !.pc = "idle", !.CompressionLevel = level,
                                 !.PreservePath = preservePath]
               ELSE [arch EXCEPT !.pc = "none", !.result = "UnsupportedFormat"]
    /\ UNCHANGED <<sink, probe>>
    /\ UNCHANGED uvars

\* the caller's context of the Archive call is cancelled
CancelArchive ==
    /\ arch.pc \in {"idle", "run"}
    /\ ~arch.ctx
    /\ arch' = [arch EXCEPT !.ctx = TRUE]
    /\ UNCHANGED <<sink, probe>>
    /\ UNCHANGED uvars

\* the deferred closures of a call run as it returns, the last registered
\* first: each closes its stream, and r holds the call's result so far, the
\* streams closed and the errors in the order they occurred
RECURSIVE runDeferred(_, _)
runDeferred(deferred, r) ==
    IF deferred = <<>> THEN r
    ELSE LET stream == deferred[Len(deferred)]
         IN  runDeferred(SubSeq(deferred, 1, Len(deferred) - 1),
                         [result |-> deferredClose(r.result, Close(stream)),
                          closed |-> Append(r.closed, stream),
                          errs |-> IF Close(stream) = "none" THEN r.errs
                                   ELSE Append(r.errs, Close(stream))])

\* the Archive call returns err, the sink being s: the closures deferred so
\* far run, and closing the writers writes the end of the stream
ReturnOn(a, s, err) ==
    /\ \E r \in {runDeferred(a.deferred,
                              [result |-> err, closed |-> <<>>,
                               errs |-> IF err = "OK" THEN <<>> ELSE <<err>>])} :
          arch' = [a EXCEPT !.pc = "done", !.result = r.result, !.deferred = <<>>,
                            !.closed = r.closed, !.errs = r.errs]
    /\ sink' = [s EXCEPT !.bytes = s.bytes \/ a.deferred # <<>>]

Return(a, err) == ReturnOn(a, sink, err)

\* the loop of Archive takes up the next source, or returns
Continue(a) ==
    IF a.todo = <<>> THEN Return(a, "OK")
    ELSE /\ arch' = [a EXCEPT !.source = Head(a.todo), !.todo = Tail(a.todo),
                              !.walk = WalkList(fs, Head(a.todo))]
         /\ UNCHANGED sink

\* an Archive that starts on its sources without looking at the context
ArchiveUnchecked(src) ==
    /\ arch.pc = "idle"
    /\ \E fr \in filterRedundantPaths(fs, src) :
          IF fr.err
          THEN Return([arch EXCEPT !.src = src], "PathResolutionError")
          ELSE IF ~ValidLevel(arch.CompressionLevel)
          THEN Return([arch EXCEPT !.src = src, !.filteredSrc = fr.paths],
                      "InvalidCompressionLevel")
          ELSE Continue([arch EXCEPT !.pc = "run", !.src = src,
                                     !.filteredSrc = fr.paths, !.todo = fr.paths,
                                     !.deferred = <<"gzip", "tar">>])
    /\ UNCHANGED probe
    /\ UNCHANGED uvars

\* Archive up to its loop: the context check, the filter, the writers, each
\* with the deferred closure that closes it (the gzip writer's is registered
\* first, the tar writer's second)
Archive(src) ==
    /\ arch.pc = "idle"
    /\ \E fr \in filterRedundantPaths(fs, src) :
          IF arch.ctx THEN Return([arch EXCEPT !.src = src], "Cancelled")
          ELSE IF fr.err
          THEN Return([arch EXCEPT !.src = src], "PathResolutionError")
          ELSE IF ~ValidLevel(arch.CompressionLevel)
          THEN Return([arch EXCEPT !.src = src, !.filteredSrc = fr.paths],
                      "InvalidCompressionLevel")
          ELSE Continue([arch EXCEPT !.pc = "run", !.src = src,
                                     !.filteredSrc = fr.paths, !.todo = fr.paths,
                                     !.deferred = <<"gzip", "tar">>])
    /\ UNCHANGED probe
    /\ UNCHANGED uvars

\* archiveSource: one call of the function filepath.Walk is given, for the
\* next path of the source
archiveSource ==
    /\ arch.pc = "run"
    /\ arch.walk # <<>>
    /\ LET w == Head(arch.walk)
           h == createHeader(fs, w.loc)
           n == setHeaderName(fs, h.typeflag, arch.source, w.path, arch.PreservePath)
       IN  IF w.err THEN Return(arch, "IOError")
           ELSE IF arch.ctx THEN Return(arch, "Cancelled")
           ELSE IF n.err THEN Return(arch, "IOError")
           ELSE /\ arch' = [arch EXCEPT !.walk = Tail(arch.walk)]
                /\ sink' = [sink EXCEPT !.bytes = TRUE,
                            !.entries = Append(sink.entries,
                                [typeflag |-> h.typeflag, name |-> n.name,
                                 linkname |-> h.linkname, data |-> h.data,
                                 size |-> h.size,
                                 loc |-> w.loc, source |-> arch.source])]
    /\ UNCHANGED probe
    /\ UNCHANGED uvars

\* archiveSource has returned nil: the context check of Archive's loop
SourceDone ==
    /\ arch.pc = "run"
    /\ arch.walk = <<>>
    /\ IF arch.ctx THEN Return(arch, "Cancelled") ELSE Continue(arch)
    /\ UNCHANGED probe
    /\ UNCHANGED uvars

\* the header tarReader.Next returns for an entry of the sink
ReadHeader(e) ==
    [typeflag |-> e.typeflag, name |-> AsStr(e.name), linkname |-> e.linkname,
     data |-> e.data]

\* gzip.NewReader finds no gzip header: nothing was written to the sink
NewReaderFails(c) ==
    /\ pc[c] = "run"
    /\ count[c] = 0
    /\ ~sink.bytes
    /\ pc' = [pc EXCEPT ![c] = "done"]
    /\ result' = [result EXCEPT ![c] = "IOError"]
    /\ soloResult' = [soloResult EXCEPT ![c] = "IOError"]
    /\ UNCHANGED <<fs, extractedSymlinks, dest, header, count, ctxDone, soloFs, soloSyms>>
    /\ UNCHANGED avars

NextArchive ==
    \/ \E format \in Formats, level \in Levels, preservePath \in BOOLEAN :
          NewArchiver(format, level, preservePath)
    \/ \E src \in SourceLists : Archive(src)
    \/ archiveSource
    \/ SourceDone
    \/ CancelArchive
    \/ arch.pc = "done" /\ Unarchive(1, DestD)
    \/ NewReaderFails(1)
    \/ count[1] < Len(sink.entries)
       /\ Extract(1, ReadHeader(sink.entries[count[1] + 1]), Len(sink.entries))
    \/ count[1] < Len(sink.entries)
       /\ FileCancelled(1, ReadHeader(sink.entries[count[1] + 1]), Len(sink.entries))
    \/ sink.bytes /\ count[1] = Len(sink.entries) /\ EndOfStream(1)
    \/ sink.bytes /\ LoopCancelled(1)
    \/ arch.pc = "done" /\ Cancel(1)

SpecArchive == InitArchive /\ [][NextArchive]_vars

(***************************************************************************)
(* SpecCopy: Archive with the header of a file and the copy of its content *)
(* as two steps, while another process appends to the files.               *)
(***************************************************************************)
\* the largest size a file grows to
MaxSize == 3

CopyLists ==
    { <<Raw(0, <<"s", "f">>, FALSE)>>,
      <<Raw(0, <<"s", "f">>, FALSE), Raw(0, <<"t", "f">>, FALSE)>>,
      <<Raw(0, <<"s">>, FALSE)>> }

\* another process appends a byte to a file
Grow(loc) ==
    /\ loc \in DOMAIN fs
    /\ fs[loc].kind = "file"
    /\ Len(fs[loc].data) < MaxSize
    /\ fs' = [fs EXCEPT ![loc] = FileNode(fs[loc].data \o "+")]
    /\ UNCHANGED <<extractedSymlinks, pc, dest, header, result, count, ctxDone,
                   soloFs, soloSyms, soloResult>>
    /\ UNCHANGED avars

\* archiveSource up to WriteHeader: the header of the next path of the walk
\* is written; the content of a regular file is still to be copied
archiveHeader ==
    /\ arch.pc = "run"
    /\ arch.walk # <<>>
    /\ LET w == Head(arch.walk)
           h == createHeader(fs, w.loc)
           n == setHeaderName(fs, h.typeflag, arch.source, w.path, arch.PreservePath)
       IN  IF w.err THEN Return(arch, "IOError")
           ELSE IF arch.ctx THEN Return(arch, "Cancelled")
           ELSE IF n.err THEN Return(arch, "IOError")
           ELSE /\ arch' = IF h.typeflag = "TypeReg"
                           THEN [arch EXCEPT !.pc = "copy", !.read = 0]
                           ELSE [arch EXCEPT !.walk = Tail(arch.walk)]
                /\ sink' = [sink EXCEPT !.bytes = TRUE,
                            !.entries = Append(sink.entries,
                                [typeflag |-> h.typeflag, name |-> n.name,
                                 linkname |-> h.linkname,
                                 data |-> IF h.typeflag = "TypeReg" THEN "" ELSE h.data,
                                 size |-> h.size,
                                 loc |-> w.loc, source |-> arch.source])]
    /\ UNCHANGED probe
    /\ UNCHANGED uvars

\* copyFileContent copies the content of a file to the tar writer: the file
\* is opened and stat'ed, at most the size found is read, and the tar writer
\* takes what the header left room for and fails on more
copyFileContent ==
    /\ arch.pc = "copy"
    /\ LET w == Head(arch.walk)
           last == Len(sink.entries)
           limit == Len(fs[w.loc].data)
           got == SubSeq(fs[w.loc].data, 1, limit)
           room == sink.entries[last].size
           put == SubSeq(got, 1, IF Len(got) < room THEN Len(got) ELSE room)
           a == [arch EXCEPT !.read = Len(got)]
       IN  IF Len(got) > room
           THEN ReturnOn(a, [sink EXCEPT !.entries[last].data = put], "WriteTooLong")
           ELSE /\ arch' = [a EXCEPT !.pc = "run", !.walk = Tail(arch.walk)]
                /\ sink' = [sink EXCEPT !.entries[last].data = put]
    /\ UNCHANGED probe
    /\ UNCHANGED uvars

NextCopy ==
    \/ \E format \in Formats, level \in Levels, preservePath \in BOOLEAN :
          NewArchiver(format, level, preservePath)
    \/ \E src \in CopyLists : Archive(src)
    \/ archiveHeader
    \/ copyFileContent
    \/ SourceDone
    \/ \E loc \in {<<"w", "s", "f">>, <<"w", "t", "f">>} : arch.pc \in {"run", "copy"} /\ Grow(loc)

SpecCopy == InitArchive /\ [][NextCopy]_vars

(***************************************************************************)
(* SpecClose: Archive and Unarchive on streams whose Close may report an   *)
(* error: the destination writer or the source reader of the caller starts *)
(* to fail at any point of the call.                                       *)
(***************************************************************************)
Streams == {"tar", "gzip", "gzipReader"}

\* source lists that end in each way: archived, a path the walk cannot
\* read, a path the filter cannot read, nothing to archive
CloseLists ==
    { <<Raw(0, <<"s", "f">>, FALSE)>>, <<Raw(0, <<"s", "a">>, FALSE)>>,
      <<Raw(0, <<"s", "a">>, FALSE), Raw(0, <<"s", "f">>, FALSE)>>, <<>> }

\* from now on the Close of the stream reports an error
CloseWillFail(stream) ==
    /\ stream \notin sink.failing
    /\ arch.pc \in {"idle", "run", "done"}
    /\ pc[1] # "done"
    /\ sink' = [sink EXCEPT !.failing = sink.failing \cup {stream}]
    /\ UNCHANGED <<arch, probe>>
    /\ UNCHANGED uvars

NextClose ==
    \/ \E format \in Formats, level \in Levels, preservePath \in BOOLEAN :
          NewArchiver(format, level, preservePath)
    \/ \E src \in CloseLists : Archive(src)
    \/ archiveSource
    \/ SourceDone
    \/ CancelArchive
    \/ \E stream \in Streams : CloseWillFail(stream)
    \/ arch.pc = "done" /\ Unarchive(1, DestD)
    \/ NewReaderFails(1)
    \/ count[1] < Len(sink.entries)
       /\ Extract(1, ReadHeader(sink.entries[count[1] + 1]), Len(sink.entries))
    \/ count[1] < Len(sink.entries)
       /\ FileCancelled(1, ReadHeader(sink.entries[count[1] + 1]), Len(sink.entries))
    \/ sink.bytes /\ count[1] = Len(sink.entries) /\ EndOfStream(1)
    \/ sink.bytes /\ LoopCancelled(1)
    \/ arch.pc = "done" /\ Cancel(1)

SpecClose == InitArchive /\ [][NextClose]_vars

(***************************************************************************)
(* SpecLive: one Unarchive call into /w/d that reads a given finite stream *)
(* entry by entry; the running call always takes its next step.  Beside    *)
(* it, checkSymlinkChain is called on symlink records of any shape.        *)
(***************************************************************************)
\* an entry of a given stream
StreamEntry(typeflag, name, linkname) ==
    [typeflag |-> typeflag, name |-> AsRaw(name), linkname |-> linkname,
     data |-> Hdr(typeflag, name, linkname).data, size |-> 0,
     loc |-> <<>>, source |-> Raw(0, <<>>, FALSE)]

\* entries that leave stale records: a symlink, the file it points at, and
\* a hard link that takes the place of the symlink
LiveEntries ==
    { StreamEntry("TypeSymlink", Str(FALSE, <<"a">>), Str(FALSE, <<"b">>)),
      StreamEntry("TypeSymlink", Str(FALSE, <<"b">>), Str(FALSE, <<"a">>)),
      StreamEntry("TypeLink", Str(FALSE, <<"a">>), Str(FALSE, <<"b">>)),
      StreamEntry("TypeReg", Str(FALSE, <<"b">>), EmptyStr),
      StreamEntry("TypeDir", Str(FALSE, <<"b">>), EmptyStr) }

\* n symlinks of the line of names, the one pointed at before the one that
\* points at it
RECURSIVE ChainStream(_)
ChainStream(n) ==
    IF n = 0 THEN <<>>
    ELSE <<StreamEntry("TypeSymlink", Str(FALSE, <<ChainSegs[n]>>),
                       Str(FALSE, <<ChainSegs[n + 1]>>))>>
         \o ChainStream(n - 1)

\* a stream whose last symlink is validated on a stale record: the symlink
\* a was replaced by a hard link
StaleStream ==
    << StreamEntry("TypeReg", Str(FALSE, <<"b">>), EmptyStr),
       StreamEntry("TypeSymlink", Str(FALSE, <<"a">>), Str(FALSE, <<"b">>)),
       StreamEntry("TypeLink", Str(FALSE, <<"a">>), Str(FALSE, <<"b">>)),
       StreamEntry("TypeSymlink", Str(FALSE, <<"e">>), Str(FALSE, <<"a">>)) >>

LiveStreams ==
    UNION { [1..n -> LiveEntries] : n \in 0..MaxEntries }
    \cup { ChainStream(n) : n \in (MaxChain - 1)..MaxChain }
    \cup { StaleStream }

\* the caller opens a stream for the call to read
Given(stream) ==
    /\ pc[1] = "idle"
    /\ ~sink.bytes
    /\ sink' = [sink EXCEPT !.bytes = TRUE, !.entries = stream]
    /\ UNCHANGED <<arch, probe>>
    /\ UNCHANGED uvars

\* symlink records of any shape: two that refer to each other, one that
\* refers to itself, a line of three
RecordSets ==
    LET a == Join(DestD, Str(FALSE, <<"a">>))
        b == Join(DestD, Str(FALSE, <<"b">>))
        c == Join(DestD, Str(FALSE, <<"c">>))
    IN  { (a :> Str(FALSE, <<"b">>)) @@ (b :> Str(FALSE, <<"a">>)),
          (a :> Str(FALSE, <<"a">>)),
          (a :> Str(FALSE, <<"b">>)) @@ (b :> Str(FALSE, <<"c">>)),
          NoSyms }

RecordPaths == { Join(DestD, Str(FALSE, <<n>>)) : n \in {"a", "e"} }

\* checkSymlinkChain is called on records, a new link and its target, once
\* an Unarchive call has returned from a stream of more than maxDepth entries
CallChain(syms, originalLink, targetPath) ==
    /\ probe.fn = "none"
    /\ pc[1] = "done"
    /\ count[1] > maxDepth
    /\ probe' = [fn |-> "checkSymlinkChain", in |-> <<syms, originalLink, targetPath>>,
                 walk |-> [target |-> targetPath, depth |-> 0], returned |-> FALSE,
                 out |-> [err |-> FALSE, paths |-> <<>>, within |-> FALSE]]
    /\ UNCHANGED <<arch, sink>>
    /\ UNCHANGED uvars

\* that call of checkSymlinkChain goes on: it returns, or calls itself
ChainGoesOn ==
    /\ probe.fn = "checkSymlinkChain"
    /\ ~probe.returned
    /\ \E v \in {chainLevel(probe.in[1], probe.in[2], probe.walk.target, DestD,
                             probe.walk.depth)} :
          probe' = IF v.err = "more"
                   THEN [probe EXCEPT !.walk = [target |-> v.next,
                                                depth |-> probe.walk.depth + 1]]
                   ELSE [probe EXCEPT !.returned = TRUE, !.out.err = v.err # "OK"]
    /\ UNCHANGED <<arch, sink>>
    /\ UNCHANGED uvars

\* the steps of the call on the stream it was given: every system call and
\* every read or write of a record is one step
LiveSteps ==
    \/ sink.bytes /\ ResetRecords(1, DestD)
    \/ MakeDest(1)
    \/ count[1] < Len(sink.entries)
       /\ ReadNext(1, ReadHeader(sink.entries[count[1] + 1]), Len(sink.entries))
    \/ count[1] = Len(sink.entries) /\ EndOfStream(1)
    \/ LoopCancelled(1)
    \/ DirMake(1) \/ DirTimes(1)
    \/ FileMkdir(1) \/ FileStat(1) \/ FileOpen(1) \/ FileCopy(1) \/ FileTimes(1)
    \/ SymMkdir(1) \/ SymBack(1) \/ SymChain(1)
    \/ SymRemove(1) \/ SymMake(1) \/ SymRecord(1)
    \/ LinkMkdir(1) \/ LinkRemove(1) \/ LinkMake(1)

\* a step of LiveSteps is enabled exactly in these states
Running == sink.bytes /\ pc[1] # "done"

NextLive ==
    \/ \E stream \in LiveStreams : Given(stream)
    \/ LiveSteps
    \/ sink.bytes /\ Cancel(1)
    \/ \E syms \in RecordSets, originalLink \in RecordPaths, targetPath \in RecordPaths :
          CallChain(syms, originalLink, targetPath)
    \/ ChainGoesOn

\* ChainGoesOn is enabled exactly in these states
Walking == probe.fn = "checkSymlinkChain" /\ ~probe.returned

\* a call that has been made keeps running: weak fairness of the steps of
\* Unarchive and of checkSymlinkChain, WF_vars(LiveSteps) and
\* WF_vars(ChainGoesOn), written out with Running and Walking for the
\* enabling conditions
SpecLive ==
    /\ Init /\ [][NextLive]_vars
    /\ ([]<>(~Running) \/ []<><<LiveSteps>>_vars)
    /\ ([]<>(~Walking) \/ []<><<ChainGoesOn>>_vars)

(***************************************************************************)
(* SpecCover: Archive on source lists in which one path covers another,    *)
(* as a directory or as a symbolic link to a directory.                    *)
(***************************************************************************)
CoverSources ==
    { Raw(0, <<"s">>, FALSE), Raw(0, <<"s", "f">>, FALSE), Raw(0, <<"s", "k">>, FALSE),
      Raw(0, <<"l">>, FALSE), Raw(0, <<"l", "f">>, FALSE), Raw(0, <<"t", "f">>, FALSE) }

CoverLists == UNION { [1..n -> CoverSources] : n \in 1..MaxSources }

NextCover ==
    \/ \E format \in Formats, level \in Levels, preservePath \in BOOLEAN :
          NewArchiver(format, level, preservePath)
    \/ \E src \in CoverLists : Archive(src)
    \/ archiveSource
    \/ SourceDone

SpecCover == InitArchive /\ [][NextCover]_vars

(***************************************************************************)
(* SpecRoot: one Unarchive call into /w/d on streams whose entries name    *)
(* the destination itself.                                                 *)
(***************************************************************************)
\* stored names: ".", "./" and a name below the destination
RootNames == { DotStr, Str(FALSE, <<".", "">>), Str(FALSE, <<"a">>) }

\* link texts: a name in the destination, the same name as seen from the
\* directory that holds the destination, and the destination
RootLinks == { Str(FALSE, <<"a">>), Str(FALSE, <<"d", "a">>), DotStr }

RootEntries ==
    { Hdr(t, n, EmptyStr) : t \in {"TypeDir", "TypeReg"}, n \in RootNames }
    \cup { Hdr(t, n, l) : t \in {"TypeSymlink", "TypeLink"}, n \in RootNames, l \in RootLinks }

NextRoot ==
    \/ Unarchive(1, DestD)
    \/ \E e \in RootEntries : Extract(1, e, MaxEntries)
    \/ EndOfStream(1)

SpecRoot == Init /\ [][NextRoot]_vars

(***************************************************************************)
(* SpecDir: Unarchive on streams of directory and file entries, on a file  *)
(* system whose directories carry a permission mode and a modification     *)
(* time.  A handler acts on the plain file system as before; the modes and *)
(* times follow from what it created: a directory made by os.MkdirAll gets *)
(* the mode passed to it, a directory in which a name appears, disappears  *)
(* or is replaced gets the current time, os.Chtimes sets the stored time.  *)
(* The process's umask is taken to be 0.                                   *)
(***************************************************************************)
\* a mode or a time: the one stored in the header of the named entry, the
\* mode 0755 the handlers create parents with, the time of the call, or
\* what the directory had before the call
Stored(name) == [by |-> "header", name |-> name]

Mode0755 == [by |-> "0755", name |-> EmptyStr]

TimeNow == [by |-> "now", name |-> EmptyStr]

Before == [by |-> "before", name |-> EmptyStr]

\* the node of the plain file system
Plain(node) == [kind |-> node.kind, link |-> node.link, data |-> node.data]

PlainFs(F) == [loc \in DOMAIN F |-> Plain(F[loc])]

\* a node with its mode, its time, and the stored name of the Directory
\* entry that was last extracted onto it
WithAttrs(node, mode, mtime, hdr) ==
    [kind |-> node.kind, link |-> node.link, data |-> node.data,
     mode |-> mode, mtime |-> mtime, hdr |-> hdr]

\* the file system the call finds
Found(f) == [loc \in DOMAIN f |-> WithAttrs(f[loc], Before, Before, EmptyStr)]

\* the directory loc has lost, gained or had replaced one of its names
Modified(F, g, loc) ==
    \E l \in (DOMAIN F \cup DOMAIN g) :
        /\ l # <<>>
        /\ Parent(l) = loc
        /\ l \notin DOMAIN F \/ l \notin DOMAIN g \/ Plain(F[l]) # g[l]

\* the file system with modes and times after a handler has turned the
\* plain file system of F into g: made is the mode new directories were
\* created with, linked the directory a link was created in (or <<"-">>),
\* timed the directory os.Chtimes was called on (or <<"-">>) for the entry
\* named name
Attrs(F, g, made, linked, timed, name) ==
    [loc \in DOMAIN g |->
        IF g[loc].kind # "dir" THEN WithAttrs(g[loc], Before, Before, EmptyStr)
        ELSE LET existed == loc \in DOMAIN F /\ F[loc].kind = "dir"
             IN  WithAttrs(g[loc],
                     IF existed THEN F[loc].mode ELSE made,
                     IF loc = timed THEN Stored(name)
                     ELSE IF ~existed \/ Modified(F, g, loc) \/ loc = linked THEN TimeNow
                     ELSE F[loc].mtime,
                     IF loc = timed THEN name
                     ELSE IF existed THEN F[loc].hdr ELSE EmptyStr)]

\* the modes and times after an entry: r is what the entry did on the plain
\* file system, at what os.Stat finds at its target path afterwards, up what
\* it finds at the parent of the target path
AfterEntry(F, r, e, at, up) ==
    Ret(Attrs(F, r.fs,
              IF e.typeflag = "TypeDir" THEN Stored(e.name) ELSE Mode0755,
              IF r.err = "OK" /\ e.typeflag \in {"TypeSymlink", "TypeLink"} /\ up.st = "ok"
              THEN up.at ELSE <<"-">>,
              IF r.err = "OK" /\ e.typeflag = "TypeDir" /\ at.st = "ok"
              THEN at.at ELSE <<"-">>,
              e.name),
        r.syms, r.err)

AtTarget(F, r, e, t) ==
    AfterEntry(F, r, e, Stat(r.fs, t.path), Stat(r.fs, Dir(t.path)))

\* one entry on a file system with modes and times
UnarchiveEntryAttrs(F, syms, e, destAbs) ==
    AtTarget(F, UnarchiveEntry(PlainFs(F), syms, e, destAbs), e,
             getTargetPath(e.name, destAbs))

DirEntries == { Hdr(t, n, EmptyStr) : t \in {"TypeDir", "TypeReg"}, n \in Names }

InitDir == fs = Found(FsFresh) /\ Idle

\* the destination after os.MkdirAll returned m
Created(c, m) ==
    /\ extractedSymlinks' = freshSymlinks(extractedSymlinks)
    /\ fs' = Attrs(fs, m.fs, Mode0755, <<"-">>, <<"-">>, EmptyStr)
    /\ pc' = [pc EXCEPT ![c] = IF m.err THEN "done" ELSE "run"]
    /\ result' = [result EXCEPT ![c] = IF m.err THEN "IOError" ELSE "none"]

\* Unarchive up to its loop, the destination created with mode 0755
UnarchiveAttrs(c, d) ==
    /\ pc[c] = "idle"
    /\ dest' = [dest EXCEPT ![c] = d]
    /\ IF ctxDone[c]
       THEN /\ pc' = [pc EXCEPT ![c] = "done"]
            /\ result' = [result EXCEPT ![c] = "Cancelled"]
            /\ UNCHANGED <<fs, extractedSymlinks>>
       ELSE Created(c, MkdirAll(PlainFs(fs), d))
    /\ UNCHANGED <<header, count, ctxDone, soloFs, soloSyms, soloResult>>
    /\ UNCHANGED avars

\* the loop's effect on the call's state: r is what the entry did
CommitAttrs(c, e, r) ==
    /\ fs' = r.fs
    /\ extractedSymlinks' = r.syms
    /\ pc' = [pc EXCEPT ![c] = IF r.err = "OK" THEN "run" ELSE "done"]
    /\ result' = [result EXCEPT ![c] = IF r.err = "OK" THEN "none" ELSE Returned(r.err)]
    /\ header' = [header EXCEPT ![c] = e]
    /\ count' = [count EXCEPT ![c] = count[c] + 1]
    /\ UNCHANGED <<dest, ctxDone, soloFs, soloSyms, soloResult>>
    /\ UNCHANGED avars

\* one iteration of the loop on the next header of the stream
ExtractAttrs(c, e, limit) ==
    /\ pc[c] = "run"
    /\ ~ctxDone[c]
    /\ count[c] < limit
    /\ CommitAttrs(c, e, UnarchiveEntryAttrs(fs, extractedSymlinks, e, dest[c]))

NextDir ==
    \/ UnarchiveAttrs(1, DestD)
    \/ \E e \in DirEntries : ExtractAttrs(1, e, MaxEntries)
    \/ EndOfStream(1)

SpecDir == InitDir /\ [][NextDir]_vars

(***************************************************************************)
(* SpecFn: the path functions called on their own, on a list of paths of   *)
(* the source tree or on a pair of path strings.                           *)
(***************************************************************************)
\* the longest list of paths given to the filter
MaxPaths == 3

\* paths given to the filter: directories in several spellings, files, the
\* working directory, a symlink to a directory, and a path that is missing
FilterPaths ==
    { Raw(0, <<"s">>, FALSE), Raw(0, <<"s">>, TRUE), Raw(1, <<"w", "s">>, FALSE),
      Raw(0, <<"s", "f">>, FALSE), Raw(0, <<"t">>, FALSE), Raw(0, <<"t", "f">>, FALSE),
      Raw(0, <<"l">>, FALSE), Raw(0, <<"l", "f">>, FALSE), Raw(0, <<".">>, FALSE),
      Raw(0, <<"s", "a">>, FALSE) }

PathLists == UNION { [1..n -> FilterPaths] : n \in 0..MaxPaths }

\* boundary directories as a caller writes them
Roots ==
    { Raw(0, <<>>, FALSE), Raw(1, <<>>, FALSE), Raw(0, <<".">>, FALSE),
      Raw(0, <<"..">>, FALSE), Raw(0, <<"a">>, FALSE), Raw(0, <<"a">>, TRUE),
      Raw(0, <<"a", "b">>, FALSE), Raw(1, <<"w">>, FALSE), Raw(1, <<"w">>, TRUE),
      Raw(1, <<"w", "d">>, FALSE), Raw(1, <<"w", "d", "..">>, FALSE) }

\* the string r followed by the separator and the names segs
Below(r, segs) ==
    Raw(IF r.segs = <<>> THEN r.lead + 1 ELSE r.lead, r.segs \o segs, FALSE)

\* the string r followed by the character "x": a longer last name
Longer(r) ==
    IF r.trail \/ r.segs = <<>> THEN Raw(r.lead, r.segs \o <<"x">>, FALSE)
    ELSE Raw(r.lead, SubSeq(r.segs, 1, Len(r.segs) - 1)
                     \o <<r.segs[Len(r.segs)] \o "x">>, FALSE)

\* paths tested against a boundary: the boundaries themselves, and what
\* they give when "/x", "/../x" or "x" is appended
Candidates ==
    Roots \cup { Below(r, <<"x">>) : r \in Roots }
          \cup { Below(r, <<"..", "x">>) : r \in Roots }
          \cup { Longer(r) : r \in Roots }

InitFn == fs \in {FsSrc, FsFresh} /\ Idle

\* filterRedundantPaths is called on a list of paths
CallFilter(paths) ==
    /\ probe.fn = "none"
    /\ \E r \in filterRedundantPaths(fs, paths) :
          probe' = [fn |-> "filterRedundantPaths", in |-> paths,
                    walk |-> NoLocal, returned |-> TRUE,
                    out |-> [err |-> r.err, paths |-> r.paths, within |-> FALSE]]
    /\ UNCHANGED <<arch, sink>>
    /\ UNCHANGED uvars

\* isPathWithinBoundary is called on a path and a directory
CallWithin(path, dir) ==
    /\ probe.fn = "none"
    /\ probe' = [fn |-> "isPathWithinBoundary", in |-> <<path, dir>>,
                 walk |-> NoLocal, returned |-> TRUE,
                 out |-> [err |-> FALSE, paths |-> <<>>,
                          within |-> isPathWithinBoundary(AsStr(path), AsStr(dir))]]
    /\ UNCHANGED <<arch, sink>>
    /\ UNCHANGED uvars

NextFn ==
    \/ \E paths \in PathLists : CallFilter(paths)
    \/ \E path \in Candidates, dir \in Roots : CallWithin(path, dir)

SpecFn == InitFn /\ [][NextFn]_vars

(***************************************************************************)
(* Properties                                                              *)
(***************************************************************************)
\* the part of a file system outside, and inside, the tree of root
Outside(f, root) == [loc \in {x \in DOMAIN f : ~IsUnder(x, root.segs)} |-> f[loc]]

Inside(f, root) == [loc \in {x \in DOMAIN f : IsUnder(x, root.segs)} |-> f[loc]]

\* in this step call c read the header header'[c] and handled it
Read(c) == count'[c] = count[c] + 1 /\ ~ctxDone'[c]

\* a stored name that is absolute once normalized: leading separator or
\* drive letter
NameIsAbsolute(name) ==
    LET c == Clean(name)
    IN  c.abs \/ (c.segs # <<>> /\ c.segs[1] \in DriveSegs)

\* a stored name whose join onto the root is a location outside the root
NameLeavesRoot(name, root) == ~IsUnder(Clean(Str(TRUE, root.segs \o name.segs)).segs, root.segs)

\* a stored name that reaches the handlers
NameAccepted(name, root) ==
    /\ ~NameIsAbsolute(name)
    /\ ~NameLeavesRoot(name, root)
    /\ (name.segs = <<>> \/ Clean(name).segs[1] \notin BackslashSegs)

\* the location a symbolic link at loc denotes: its text relative to its
\* directory, normalized
LinkNext(f, loc) ==
    IF f[loc].link.abs THEN Clean(f[loc].link).segs
    ELSE Clean(Str(TRUE, Parent(loc) \o f[loc].link.segs)).segs

IsSymlink(f, loc) == loc \in DOMAIN f /\ f[loc].kind = "symlink"

\* following symbolic links from cur leads to start within n hops
RECURSIVE Returns(_, _, _, _)
Returns(f, start, cur, n) ==
    IF n = 0 \/ ~IsSymlink(f, cur) THEN FALSE
    ELSE LinkNext(f, cur) = start \/ Returns(f, start, LinkNext(f, cur), n - 1)

\* the number of consecutive symbolic links from loc on, up to n
RECURSIVE HopsFrom(_, _, _)
HopsFrom(f, loc, n) ==
    IF n = 0 \/ ~IsSymlink(f, loc) THEN 0
    ELSE 1 + HopsFrom(f, LinkNext(f, loc), n - 1)

\* the number of consecutive recorded symlinks from path on, up to n
RECURSIVE RecordedRun(_, _, _)
RecordedRun(syms, path, n) ==
    IF n = 0 \/ path \notin DOMAIN syms THEN 0
    ELSE 1 + RecordedRun(syms, Clean(Str(TRUE, Dir(path).segs \o syms[path].segs)), n - 1)

PathErrors ==
    {"AbsolutePath", "TraversalAttempt", "AbsoluteSymlink", "SymlinkEscape",
     "CircularSymlink", "ChainTooDeep", "HardLinkEscape"}

\* C1: no step of Unarchive creates, writes, replaces or removes anything at
\* a physical location outside the destination root.
C1_NoWriteOutsideRoot ==
    [][Outside(fs', DestD) = Outside(fs, DestD)]_vars

\* C2: an entry whose normalized name is absolute or whose join onto the
\* root lies outside the root fails with AbsolutePath or TraversalAttempt and
\* changes nothing in the file system.
C2_RejectsEscapingNames ==
    [][\A c \in Calls :
        (/\ Read(c)
         /\ \/ NameIsAbsolute(header'[c].name)
            \/ NameLeavesRoot(header'[c].name, dest[c]))
        => (result'[c] \in {"AbsolutePath", "TraversalAttempt"} /\ fs' = fs)]_vars

\* C2 witness: after two extracted entries, a third whose name leaves the
\* root has been rejected as a traversal attempt.
C2_Witness ==
    /\ result[1] = "TraversalAttempt"
    /\ count[1] = 3
    /\ NameLeavesRoot(header[1].name, dest[1])

\* C3: no symbolic link under the destination root has an absolute link
\* text or a target that, resolved relative to the link's directory and
\* normalized, lies outside the root.
C3_NoEscapingSymlink ==
    \A loc \in DOMAIN fs :
        (IsSymlink(fs, loc) /\ IsUnder(loc, DestD.segs))
        => (~fs[loc].link.abs /\ IsUnder(LinkNext(fs, loc), DestD.segs))

\* C4: the symbolic links under the destination root contain no cycle.
C4_NoSymlinkCycle ==
    \A loc \in DOMAIN fs :
        (IsSymlink(fs, loc) /\ IsUnder(loc, DestD.segs))
        => ~Returns(fs, loc, loc, Cardinality(DOMAIN fs))

RECURSIVE LeadsBack(_, _, _, _)
LeadsBack(syms, path, start, n) ==
    /\ n > 0
    /\ path \in DOMAIN syms
    /\ LET next == Clean(Str(TRUE, Dir(path).segs \o syms[path].segs))
       IN  next = start \/ LeadsBack(syms, next, start, n - 1)

C6_HardLinkEscapeNoEffect ==
    [][\A c \in Calls :
        (/\ Read(c)
         /\ header'[c].typeflag = "TypeLink"
         /\ NameAccepted(header'[c].name, dest[c])
         /\ ~IsUnder(Clean(Str(TRUE, dest[c].segs \o header'[c].linkname.segs)).segs,
                     dest[c].segs))
        => (result'[c] = "HardLinkEscape" /\ fs' = fs)]_vars

\* C6 witness: a hard link entry named b/a with a target outside the root
\* has been rejected; the file at a is still there and b was not created.
C6_Witness ==
    /\ result[1] = "HardLinkEscape"
    /\ header[1].name = Str(FALSE, <<"b", "a">>)
    /\ <<"w", "d", "b">> \notin DOMAIN fs
    /\ <<"w", "d", "a">> \in DOMAIN fs

\* C7: a call that has returned has the result, and has left in its
\* destination the files, of the same call running alone; and no call is
\* stopped by the other.
C7_ConcurrentCallsIndependent ==
    \A c \in Calls :
        /\ pc[c] # "aborted"
        /\ pc[c] = "done"
           => (result[c] = soloResult[c] /\ Inside(fs, dest[c]) = Inside(soloFs[c], dest[c]))

\* C8: the call that runs last has, at every point, the records, the file
\* system and the result that a fresh archiver has on the same entries.
C8_FreshSessionEachCall ==
    \A c \in Calls :
        (pc[c] # "idle" /\ (c = 2 \/ pc[2] = "idle"))
        => /\ result[c] = soloResult[c]
           /\ fs = soloFs[c]
           /\ pc[c] = "run" => extractedSymlinks = soloSyms[c]

\* C8 witness: the first call has extracted the symlink a -> b and returned;
\* the second call has accepted b -> a, which the first call's record of a
\* would have made circular.
C8_Witness ==
    /\ pc[1] = "done"
    /\ pc[2] = "run"
    /\ IsSymlink(fs, <<"w", "d", "a">>)
    /\ header[2] = Hdr("TypeSymlink", Str(FALSE, <<"b">>), Str(FALSE, <<"a">>))
    /\ IsSymlink(fs, <<"w", "d", "b">>)

\* C9: a regular-file entry whose target path is occupied fails with
\* FileConflict and writes nothing.
C9_OccupiedTargetConflicts ==
    [][\A c \in Calls :
        (/\ Read(c)
         /\ header'[c].typeflag \in FileTypes
         /\ NameAccepted(header'[c].name, dest[c])
         /\ Lstat(fs, Clean(Str(TRUE, dest[c].segs \o header'[c].name.segs))).st = "ok")
        => (result'[c] = "FileConflict" /\ fs' = fs)]_vars

\* C10: an entry rejected for a path condition leaves the file system as it
\* was before the entry was read.
C10_RejectedEntryNoEffect ==
    [][\A c \in Calls :
        (Read(c) /\ result'[c] \in PathErrors) => fs' = fs]_vars

\* the objects under root that entries have put there: everything below the
\* root except a file that was there before the call
Extracted(f, root) ==
    {loc \in DOMAIN f :
        IsUnder(loc, root.segs) /\ loc # root.segs /\ f[loc] # FileNode("old")}

\* C11: when the handling of an entry fails, the call returns that error,
\* handles no further entry, and every object extracted from the entries
\* before it is still in place, unchanged.
C11_FailureKeepsExtracted ==
    [][\A c \in Calls :
        /\ (Read(c) /\ result'[c] # "none")
           => /\ pc'[c] = "done"
              /\ \A loc \in Extracted(fs, dest[c]) :
                    loc \in DOMAIN fs' /\ fs'[loc] = fs[loc]
        /\ pc[c] = "done"
           => (count'[c] = count[c] /\ result'[c] = result[c] /\ fs' = fs)]_vars

\* C12: an Archive or Unarchive call that starts with its context already
\* cancelled returns Cancelled and has no effect: Archive writes no byte to
\* the sink, Unarchive creates neither the destination nor any entry
C12_PreCancelledNoEffect ==
    [][/\ (arch.pc = "idle" /\ arch.ctx /\ arch'.pc # "idle")
          => /\ arch'.pc = "done" /\ arch'.result = "Cancelled"
             /\ ~sink'.bytes /\ sink'.entries = <<>>
             /\ fs' = fs
       /\ \A c \in Calls :
             (pc[c] = "idle" /\ ctxDone[c] /\ pc'[c] # "idle")
             => /\ pc'[c] = "done" /\ result'[c] = "Cancelled"
                /\ fs' = fs /\ dest'[c].segs \notin DOMAIN fs'
                /\ extractedSymlinks' = extractedSymlinks]_vars

\* both calls were made with a cancelled context
C12_Witness ==
    /\ arch.pc = "done" /\ arch.src # <<>> /\ arch.result = "Cancelled" /\ ~sink.bytes
    /\ pc[1] = "done" /\ count[1] = 0 /\ result[1] = "Cancelled"
    /\ dest[1].segs \notin DOMAIN fs

\* C13: a call whose context is cancelled while it runs stops at its next
\* cancellation check: it writes or extracts nothing more, it ends, never with
\* success, and with Cancelled unless it fails before it reaches the check
\* (the source cannot be read, the sink holds no stream); what it wrote or
\* extracted before stays. A file entry whose extraction finds the context
\* cancelled is not extracted either.
C13_CancelledStopsPromptly ==
    [][/\ (arch.pc = "run" /\ arch.ctx /\ arch' # arch)
          => /\ arch'.pc = "done"
             /\ arch'.result # "OK"
             /\ arch'.result = "Cancelled" \/ (arch.walk # <<>> /\ Head(arch.walk).err)
             /\ sink'.entries = sink.entries
             /\ fs' = fs
       /\ \A c \in Calls :
             /\ (pc[c] = "run" /\ ctxDone[c]
                  /\ (pc'[c] # pc[c] \/ count'[c] # count[c]))
                => /\ pc'[c] = "done"
                   /\ result'[c] # "OK"
                   /\ result'[c] = "Cancelled" \/ ~sink.bytes
                   /\ count'[c] = count[c]
                   /\ fs' = fs
             /\ (pc[c] = "run" /\ ~ctxDone[c] /\ ctxDone'[c] /\ count'[c] # count[c])
                => /\ pc'[c] = "done"
                   /\ result'[c] = "Cancelled"
                   /\ fs' = fs]_vars

\* both calls were cancelled after they had produced output, which is still
\* there
C13_Witness ==
    /\ arch.pc = "done" /\ arch.result = "Cancelled" /\ sink.entries # <<>>
    /\ pc[1] = "done" /\ result[1] = "Cancelled" /\ count[1] > 0
    /\ Extracted(fs, dest[1]) # {}

\* where the entry e of the sink is extracted below root
Landing(e, root) == Join(root, AsStr(e.name)).segs

\* C14: what Archive wrote without error, Unarchive extracts without error
\* into an empty destination, and every archived object is found again at
\* its stored name with its kind, its content and its link text (modes and
\* modification times are not part of the state)
C14_RoundTrip ==
    (arch.pc = "done" /\ arch.result = "OK" /\ pc[1] = "done" /\ ~ctxDone[1])
    => /\ result[1] = "OK"
       /\ \A i \in 1..Len(sink.entries) :
             /\ Landing(sink.entries[i], dest[1]) \in DOMAIN fs
             /\ fs[Landing(sink.entries[i], dest[1])] = fs[sink.entries[i].loc]

\* the leaf name of a source path: its last name
Leaf(r) == r.segs[Len(r.segs)]

\* C15: the name stored for a file source is the file's base name when
\* PreservePath is off and the source path (less leading separators) when it
\* is on; every name stored for a directory source starts with the
\* directory's leaf name, whatever the flag
C15_PreservePathPolicy ==
    \A i \in 1..Len(sink.entries) :
        LET e == sink.entries[i]
            src == StatRaw(fs, e.source)
        IN  IF fs[src.at].kind = "dir"
            THEN /\ e.name.lead = 0
                 /\ e.name.segs # <<>>
                 /\ e.name.segs[1] = Leaf(e.source)
            ELSE IF arch.PreservePath
            THEN e.name.segs = e.source.segs /\ e.name.trail = e.source.trail
            ELSE e.name = Raw(0, <<Leaf(e.source)>>, FALSE)

\* C16: no stored name written by Archive begins with a separator, and the
\* stored name of every directory entry ends with one
C16_StoredNameShape ==
    \A i \in 1..Len(sink.entries) :
        /\ sink.entries[i].name.lead = 0
        /\ sink.entries[i].typeflag = "TypeDir" => sink.entries[i].name.trail

\* the number of times x occurs in a list
Count(list, x) == Cardinality({i \in DOMAIN list : list[i] = x})

\* the path q names a directory
NamesDir(q) == StatRaw(fs, q).st = "ok" /\ fs[StatRaw(fs, q).at].kind = "dir"

\* the path p is the directory q or lies below it, as absolute paths
Covered(p, q) == NamesDir(q) /\ IsUnder(Abs(p).segs, Abs(q).segs)

\* C17: the filter returns input paths only; no returned path is covered by
\* another returned path; every returned path lies below no input directory;
\* every dropped path is covered by a returned directory (so no file ever
\* makes a path drop); and s, s/f, t in any order give exactly s and t
C17_FilterDropsCovered ==
    (probe.fn = "filterRedundantPaths" /\ ~probe.out.err)
    => LET in == probe.in
           out == probe.out.paths
       IN  /\ \A i \in DOMAIN out : Count(out, out[i]) <= Count(in, out[i])
           /\ \A i, j \in DOMAIN out : i # j => ~Covered(out[i], out[j])
           /\ \A i \in DOMAIN out, j \in DOMAIN in :
                 Covered(out[i], in[j]) => Abs(out[i]) = Abs(in[j])
           /\ \A i \in DOMAIN in :
                 Count(out, in[i]) < Count(in, in[i])
                 => \E j \in DOMAIN out : Covered(in[i], out[j])
           /\ ({in[i] : i \in DOMAIN in}
                  = {Raw(0, <<"s">>, FALSE), Raw(0, <<"s", "f">>, FALSE), Raw(0, <<"t">>, FALSE)}
               /\ Len(in) = 3)
              => /\ Len(out) = 2
                 /\ {out[i] : i \in DOMAIN out}
                      = {Raw(0, <<"s">>, FALSE), Raw(0, <<"t">>, FALSE)}

\* the filter was given dirA, dirA/fileX and dirB, the file first
C17_Witness ==
    /\ probe.fn = "filterRedundantPaths"
    /\ probe.in = <<Raw(0, <<"s", "f">>, FALSE), Raw(0, <<"t">>, FALSE), Raw(0, <<"s">>, FALSE)>>
    /\ ~probe.out.err
    /\ Len(probe.out.paths) = 2

\* C18: Archive writes at most one entry for each object of the file
\* system, however the source list names it
C18_NoDoubleInclusion ==
    \A i, j \in 1..Len(sink.entries) :
        sink.entries[i].loc = sink.entries[j].loc => i = j

\* C19: a boundary directory is within itself, and so is the path made of
\* the directory, a separator and a name
C19_RootAndChildWithin ==
    (probe.fn = "isPathWithinBoundary" /\ probe.in[2] # Raw(0, <<>>, FALSE)
     /\ probe.in[1] \in {probe.in[2], Below(probe.in[2], <<"x">>)})
    => probe.out.within

\* C20: NewArchiver returns an archiver only for a compression level gzip
\* accepts, so that no Archive call fails because of its level
C20_LevelValidatedAtConstruction ==
    /\ arch.pc \in {"idle", "run", "done"} => ValidLevel(arch.CompressionLevel)
    /\ arch.result # "InvalidCompressionLevel"

\* the cleaned text of a path as written
Normal(r) == Text(Clean(AsStr(r)))

\* C21: the answer of isPathWithinBoundary is fixed by the two strings,
\* whatever the file system holds: it is true exactly when the normalized
\* path is the normalized root, or starts with it and has a separator as
\* its next character; /w/dx is not within /w/d
C21_WithinIsLexical ==
    probe.fn = "isPathWithinBoundary"
    => LET P == Normal(probe.in[1])
           R == Normal(probe.in[2])
       IN  /\ probe.out.within
                = \/ P = R
                  \/ /\ Len(P) > Len(R)
                     /\ SubSeq(P, 1, Len(R)) = R
                     /\ SubSeq(P, Len(R) + 1, Len(R) + 1) = "/"
           /\ (P = "/w/dx" /\ R = "/w/d") => ~probe.out.within

\* the boundary /w/d was tested against /w/dx, on the empty file system
C21_Witness ==
    /\ probe.fn = "isPathWithinBoundary"
    /\ probe.in = <<Raw(1, <<"w", "dx">>, FALSE), Raw(1, <<"w", "d">>, FALSE)>>
    /\ ~probe.out.within
    /\ fs = FsFresh

\* C22: isPathWithinBoundary is false when the path or the directory is the
\* empty string
C22_EmptyIsOutside ==
    (probe.fn = "isPathWithinBoundary"
     /\ Raw(0, <<>>, FALSE) \in {probe.in[1], probe.in[2]})
    => ~probe.out.within

\* C23: an Archive call, made with a context that is not cancelled, on a
\* list that holds a path that cannot be stat'ed, fails with
\* PathResolutionError and has written nothing to the sink, whatever the
\* length of the list
C23_UnresolvablePathFails ==
    (/\ arch.pc \in {"run", "done"}
     /\ arch.result # "Cancelled"
     /\ \E i \in DOMAIN arch.src : StatRaw(fs, arch.src[i]).st # "ok")
    => /\ arch.pc = "done"
       /\ arch.result = "PathResolutionError"
       /\ ~sink.bytes

\* C24: for a regular file Archive reads no more bytes than the size in the
\* header it wrote, and puts no more into the stream, also when the file has
\* grown since the header was built
C24_CopyWithinHeaderSize ==
    /\ \A i \in 1..Len(sink.entries) :
          sink.entries[i].typeflag = "TypeReg"
          => Len(sink.entries[i].data) <= sink.entries[i].size
    /\ (sink.entries # <<>> /\ sink.entries[Len(sink.entries)].typeflag = "TypeReg")
       => arch.read <= sink.entries[Len(sink.entries)].size

\* C25: when Unarchive has succeeded, every directory onto which a Directory
\* entry was extracted has the mode and the modification time stored in
\* that entry
C25_DirectoryKeepsStoredAttributes ==
    (pc[1] = "done" /\ result[1] = "OK")
    => \A loc \in DOMAIN fs :
          (fs[loc].kind = "dir" /\ fs[loc].hdr # EmptyStr)
          => /\ fs[loc].mode = Stored(fs[loc].hdr)
             /\ fs[loc].mtime = Stored(fs[loc].hdr)

\* C26: Archive and Unarchive return the first error that occurred: the
\* error of a Close is the result only when the call had no error before it,
\* and wherever Archive returns after opening its writers it has closed the
\* tar writer, then the gzip writer.
C26_FirstErrorAndCloseOrder ==
    [][ /\ (arch.pc # "done" /\ arch'.pc = "done")
           => /\ arch'.result = IF arch'.errs = <<>> THEN "OK" ELSE Head(arch'.errs)
              /\ (arch.pc \in {"run", "copy"}
                   \/ arch'.result \notin {"Cancelled", "PathResolutionError",
                                            "InvalidCompressionLevel"})
                 => arch'.closed = <<"tar", "gzip">>
        /\ (pc[1] = "run" /\ pc'[1] = "done" /\ sink.bytes)
           => (result'[1] = "CloseError"
               <=> (count'[1] = count[1] /\ ~ctxDone[1] /\ "gzipReader" \in sink.failing))
      ]_vars

\* an Archive has failed in its loop and both Close calls have failed after
\* it, and an Unarchive has returned the error of its Close
C26_Witness ==
    /\ arch.pc = "done"
    /\ arch.closed = <<"tar", "gzip">>
    /\ Len(arch.errs) = 3
    /\ arch.result = Head(arch.errs)
    /\ arch.result # "CloseError"
    /\ pc[1] = "done"
    /\ result[1] = "CloseError"

\* C27: Unarchive never removes or replaces the destination root: after
\* every entry, also a symlink or hard link entry whose stored name is "."
\* or "./", the destination is the directory it was at the start of the call.
C27_RootStays ==
    [][ (pc[1] = "run" /\ count'[1] = count[1] + 1)
        => /\ dest[1].segs \in DOMAIN fs'
           /\ fs'[dest[1].segs] = fs[dest[1].segs]
           /\ fs'[dest[1].segs].kind = "dir"
      ]_vars

\* C28: no source is lost by filtering: when Archive has succeeded, every
\* input path the filter dropped, also one covered by a symbolic link to a
\* directory, has its object among the archive entries.
C28_NoSourceLost ==
    (arch.pc = "done" /\ arch.result = "OK")
    => \A i \in DOMAIN arch.src :
          Count(arch.filteredSrc, arch.src[i]) < Count(arch.src, arch.src[i])
          => \E k \in DOMAIN sink.entries :
                sink.entries[k].loc = LstatRaw(fs, arch.src[i]).at

\* C29: when a hard link entry fails because the file it refers to is not
\* in the destination (not there yet, or the entry's own path), the object
\* that was at the entry's target path is still there, unchanged.
C29_FailedHardLinkKeepsTarget ==
    [][ LET e == header'[1]
            t == getTargetPath(e.name, dest[1])
            old == Lstat(fs, Join(dest[1], e.linkname))
            at == Lstat(fs, t.path)
        IN  (/\ pc[1] = "run" /\ count'[1] = count[1] + 1
             /\ e.typeflag = "TypeLink"
             /\ t.err = "OK"
             /\ isPathWithinBoundary(Join(dest[1], e.linkname), dest[1])
             /\ (old.st # "ok" \/ Join(dest[1], e.linkname) = t.path)
             /\ result'[1] = "IOError"
             /\ at.st = "ok")
            => \A loc \in DOMAIN fs :
                  IsUnder(loc, at.at) => (loc \in DOMAIN fs' /\ fs'[loc] = fs[loc])
      ]_vars

\* C30: Unarchive terminates on every finite stream: a call that was made
\* returns; every read of a header takes the next entry of the stream, once,
\* and the call returns nil only after the last one; and the validation of
\* a new symlink never goes deeper than 10 recorded hops before it returns,
\* on the records of the session (stale ones too) and on records that refer
\* to each other.
C30_Terminates ==
    /\ Running ~> (pc[1] = "done")
    /\ Walking ~> probe.returned
    /\ [][ /\ count'[1] \in {count[1], count[1] + 1}
           /\ count'[1] <= Len(sink.entries)
           /\ count'[1] = count[1] + 1
              => /\ pc[1] = "run"
                 /\ header'[1] = ReadHeader(sink.entries[count[1] + 1])
           /\ (pc[1] # "done" /\ pc'[1] = "done" /\ result'[1] = "OK")
              => count[1] = Len(sink.entries)
           /\ (result[1] = "none" /\ result'[1] = "ChainTooDeep")
              => local[1].depth = maxDepth
         ]_vars
    /\ [](local[1].depth <= maxDepth /\ probe.walk.depth <= maxDepth)

\* the call has read a stream of eleven symlinks to its end: the symlink
\* that points at ten recorded ones was validated and rejected; and the
\* validation has returned, after ten hops, on two records that refer to
\* each other
C30_Witness ==
    /\ pc[1] = "done"
    /\ count[1] = Len(sink.entries)
    /\ count[1] = maxDepth + 1
    /\ result[1] = "ChainTooDeep"
    /\ probe.fn = "checkSymlinkChain"
    /\ probe.in[1] = (Join(DestD, Str(FALSE, <<"a">>)) :> Str(FALSE, <<"b">>))
                     @@ (Join(DestD, Str(FALSE, <<"b">>)) :> Str(FALSE, <<"a">>))
    /\ probe.in[2] = Join(DestD, Str(FALSE, <<"e">>))
    /\ probe.in[3] = Join(DestD, Str(FALSE, <<"a">>))
    /\ probe.returned
    /\ probe.walk.depth = maxDepth
    /\ probe.out.err

====
